---- MODULE Spec2Model ----
(***************************************************************************)
(* Ledger data model of the accounting application: the relational store   *)
(* (tables, constraints, foreign keys and row-level policies of the        *)
(* migrations), the Chart of Accounts page handlers, and the Dashboard and *)
(* Reports aggregations over journal lines.                                *)
(*                                                                         *)
(* Money is numeric(15,2) in the store; the model counts in minor units    *)
(* (cents), so amounts are integers.  Row ids are gen_random_uuid() values;*)
(* the model draws them from a counter, so an id is never reused.          *)
(***************************************************************************)
EXTENDS Integers, Sequences, FiniteSets, TLC

VARIABLES
    organizations,       \* table organizations
    user_organizations,  \* table user_organizations (memberships)
    accounts,            \* table accounts
    journal_entries,     \* table journal_entries
    journal_lines,       \* table journal_lines
    nextId,              \* number of row ids handed out so far
    lastOp,              \* the last request to the store and its response:
                         \* rows are the rows it returned or accepted
    session,             \* the browser: signed-in user, currentOrganization,
                         \* current year, time zone
    page                 \* the mounted page component and its state

storeVars == <<organizations, user_organizations, accounts, journal_entries,
               journal_lines, nextId>>

\* ------------------------------------------------------------------ bounds
MaxRows == 4          \* row ids handed out in one behaviour of Spec
MaxAmount == 1        \* largest debit or credit of a line, in cents
MaxAggLines == 2      \* journal lines in the ledgers SpecAgg starts from

\* ---------------------------------------------------------------- fixtures
NULL == 0
NoUser == "nobody"
Users == {"u1", "u2"}
OrgIds == {"o1", "o2"}
Amounts == 0..MaxAmount
ManualCodes == {"1000", "9000"}
LineAccountTypes == {"income", "expense"}
StoreDates == {[y |-> 2026, m |-> 6, d |-> 15]}

\* error codes the store answers with
OK == "ok"
UniqueViolation == "23505"
ForeignKeyViolation == "23503"
CheckViolation == "23514"
PolicyViolation == "42501"

\* --------------------------------------------------------- row-level policies
\* user_organizations rows of user u with status = 'active'
IsActiveMember(u, o) ==
    \E m \in user_organizations :
        m.user_id = u /\ m.organization_id = o /\ m.status = "active"

\* ... AND role IN ('owner', 'admin')
IsActiveAdmin(u, o) ==
    \E m \in user_organizations :
        /\ m.user_id = u /\ m.organization_id = o
        /\ m.role \in {"owner", "admin"} /\ m.status = "active"

\* "Organization members can read accounts"
AccountsSelectPolicy(u, row) == IsActiveMember(u, row.organization_id)

\* "Organization admins and owners can manage accounts" (FOR ALL; its USING
\* expression is also the WITH CHECK of inserted and updated rows)
AccountsManagePolicy(u, row) == IsActiveAdmin(u, row.organization_id)

\* "Organization members can read journal entries"
EntriesSelectPolicy(u, row) == IsActiveMember(u, row.organization_id)

\* "Organization members can create journal entries"
EntriesInsertPolicy(u, row) ==
    IsActiveMember(u, row.organization_id) /\ row.created_by = u

\* "Organization admins and owners can manage journal entries"
EntriesManagePolicy(u, row) == IsActiveAdmin(u, row.organization_id)

\* "Organization members can read journal lines"
LinesSelectPolicy(u, row) ==
    \E e \in journal_entries :
        e.id = row.entry_id /\ IsActiveMember(u, e.organization_id)

\* "Organization members can create journal lines"
LinesInsertPolicy(u, row) ==
    \E e \in journal_entries :
        e.id = row.entry_id /\ IsActiveMember(u, e.organization_id)

\* "Organization admins and owners can manage journal lines"
LinesManagePolicy(u, row) ==
    \E e \in journal_entries :
        e.id = row.entry_id /\ IsActiveAdmin(u, e.organization_id)

\* ------------------------------------------------------- table constraints
\* accounts without UNIQUE(organization_id, code): the primary key only
AccountsPrimaryKeyOnly(rows) ==
    \A a, b \in rows : a.id = b.id => a = b

\* accounts with UNIQUE(code) in place of UNIQUE(organization_id, code)
AccountsUniqueCodeOnly(rows) ==
    \A a, b \in rows : a.code = b.code => a.id = b.id

\* accounts: UNIQUE(organization_id, code)
AccountsUnique(rows) ==
    \A a, b \in rows :
        (a.organization_id = b.organization_id /\ a.code = b.code) => a.id = b.id

\* accounts: type CHECK, organization_id and parent_account_id foreign keys
AccountRowValid(row) ==
    /\ row.type \in {"asset", "liability", "equity", "income", "expense"}
    /\ \E o \in organizations : o.id = row.organization_id
    /\ row.parent_account_id = NULL
       \/ \E p \in accounts : p.id = row.parent_account_id

\* journal_lines: CHECK (debit >= 0 AND credit >= 0),
\*                CHECK (NOT (debit > 0 AND credit > 0))
LineChecks(row) ==
    /\ row.debit >= 0 /\ row.credit >= 0
    /\ ~(row.debit > 0 /\ row.credit > 0)

\* journal_lines: entry_id and account_id foreign keys (any organization)
LineForeignKeys(row) ==
    /\ \E e \in journal_entries : e.id = row.entry_id
    /\ \E a \in accounts : a.id = row.account_id

\* ------------------------------------------------------------ derived views
EntryOrg(entryId) ==
    (CHOOSE e \in journal_entries : e.id = entryId).organization_id

AccountOf(accountId) == CHOOSE a \in accounts : a.id = accountId

LinesOf(entryId) == {l \in journal_lines : l.entry_id = entryId}

RECURSIVE SumOver(_, _)
\* sum of f[x] over the finite set S
SumOver(S, f) ==
    IF S = {} THEN 0
    ELSE LET x == CHOOSE x \in S : TRUE IN f[x] + SumOver(S \ {x}, f)

SumDebit(lines) == SumOver(lines, [l \in lines |-> l.debit])
SumCredit(lines) == SumOver(lines, [l \in lines |-> l.credit])

\* ------------------------------------------------------------------- Init
\* Two users have signed up (signUp): each owns one organization and holds
\* its active 'owner' membership, and u1 has added u2 to o1 as staff.
StoreInit ==
    /\ organizations = {[id |-> "o1", owner_user_id |-> "u1"],
                        [id |-> "o2", owner_user_id |-> "u2"]}
    /\ user_organizations =
         {[user_id |-> "u1", organization_id |-> "o1", role |-> "owner", status |-> "active"],
          [user_id |-> "u2", organization_id |-> "o2", role |-> "owner", status |-> "active"],
          [user_id |-> "u2", organization_id |-> "o1", role |-> "staff", status |-> "active"]}
    /\ accounts = {}
    /\ journal_entries = {}
    /\ journal_lines = {}
    /\ nextId = 0
    /\ lastOp = [op |-> "none", actor |-> NoUser, error |-> OK, target |-> NULL,
                 rows |-> {}]

\* ------------------------------------------------- requests to the store
\* Outcome of INSERT INTO accounts of the rows `rows` in one statement:
\* row-level WITH CHECK first, then CHECK and foreign keys, then the unique
\* index.  A failing statement inserts none of its rows.
AccountsInsertError(actor, rows) ==
    IF \E r \in rows : ~AccountsManagePolicy(actor, r) THEN PolicyViolation
    ELSE IF \E r \in rows : ~AccountRowValid(r) THEN ForeignKeyViolation
    ELSE IF ~AccountsUnique(accounts \cup rows) THEN UniqueViolation
    ELSE OK

\* Rows a DELETE or UPDATE of accounts with .eq('id', id) acts on: the rows
\* the actor's policies let through (none, without an error, otherwise).
AccountsTargets(actor, id) ==
    {a \in accounts : a.id = id /\ AccountsManagePolicy(actor, a)}

\* accounts after deleting `gone` had the foreign key been ON DELETE CASCADE
AccountsAfterCascade(gone) ==
    {a \in accounts \ gone : ~\E g \in gone : g.id = a.parent_account_id}

\* accounts after deleting `gone`: parent_account_id ... ON DELETE SET NULL
AccountsAfterDelete(gone) ==
    {IF \E g \in gone : g.id = a.parent_account_id
        THEN [a EXCEPT !.parent_account_id = NULL] ELSE a : a \in accounts \ gone}

\* journal_lines after deleting the accounts `gone`:
\* account_id ... REFERENCES accounts(id) ON DELETE CASCADE
LinesAfterAccountDelete(gone) ==
    {l \in journal_lines : ~\E g \in gone : g.id = l.account_id}

\* Outcome of INSERT INTO journal_entries: the permissive policies are OR-ed.
EntryInsertError(actor, row) ==
    IF ~(EntriesInsertPolicy(actor, row) \/ EntriesManagePolicy(actor, row))
        THEN PolicyViolation
    ELSE IF ~\E o \in organizations : o.id = row.organization_id
        THEN ForeignKeyViolation
    ELSE OK

\* Outcome of INSERT INTO journal_lines of the rows `rows` in one statement.
\* Nothing in the schema looks at more than one line at a time.
LineInsertError(actor, rows) ==
    IF \E r \in rows : ~(LinesInsertPolicy(actor, r) \/ LinesManagePolicy(actor, r))
        THEN PolicyViolation
    ELSE IF \E r \in rows : ~LineChecks(r) THEN CheckViolation
    ELSE IF \E r \in rows : ~LineForeignKeys(r) THEN ForeignKeyViolation
    ELSE OK

\* The embedded read journal_entries(*, journal_lines(*, accounts(*))) of
\* organization org as the actor sees it: every table filtered by its SELECT
\* policies (a FOR ALL policy also applies to SELECT).
VisibleEntries(actor, org) ==
    {e \in journal_entries :
        /\ e.organization_id = org
        /\ EntriesSelectPolicy(actor, e) \/ EntriesManagePolicy(actor, e)}

VisibleLines(actor, entryId) ==
    {l \in LinesOf(entryId) : LinesSelectPolicy(actor, l) \/ LinesManagePolicy(actor, l)}

\* the account read with a filter on is_active
AccountVisibleIfActive(actor, accountId) ==
    \E a \in accounts :
        /\ a.id = accountId
        /\ a.is_active
        /\ AccountsSelectPolicy(actor, a) \/ AccountsManagePolicy(actor, a)

AccountVisible(actor, accountId) ==
    \E a \in accounts :
        /\ a.id = accountId
        /\ AccountsSelectPolicy(actor, a) \/ AccountsManagePolicy(actor, a)

Outcome(op, actor, error, target, rows) ==
    [op |-> op, actor |-> actor, error |-> error, target |-> target, rows |-> rows]

AccountIds == {a.id : a \in accounts}
EntryIds == {e.id : e \in journal_entries}

\* INSERT INTO accounts of one row by an authenticated user; is_active
\* defaults to true.  (The add-account form of the page sends no parent.)
InsertAccount(actor, org, code, type, parent) ==
    /\ nextId < MaxRows
    /\ LET row == [id |-> nextId + 1, organization_id |-> org, code |-> code,
                   name |-> code, type |-> type, parent_account_id |-> parent,
                   is_active |-> TRUE]
           err == AccountsInsertError(actor, {row})
       IN /\ accounts' = IF err = OK THEN accounts \cup {row} ELSE accounts
          /\ nextId' = IF err = OK THEN nextId + 1 ELSE nextId
          /\ lastOp' = Outcome("insert_account", actor, err, NULL, {})
    /\ UNCHANGED <<organizations, user_organizations, journal_entries, journal_lines,
                 session, page>>

\* UPDATE accounts SET parent_account_id, is_active WHERE id = accountId: the
\* FOR ALL policy lets owners and admins through; the foreign key only asks
\* for the parent row to exist.
UpdateAccount(actor, accountId, parent, active) ==
    /\ LET targets == AccountsTargets(actor, accountId)
           new == {[a EXCEPT !.parent_account_id = parent, !.is_active = active] :
                      a \in targets}
           err == IF \E r \in new : ~AccountRowValid(r) THEN ForeignKeyViolation
                  ELSE OK
       IN /\ accounts' = IF err = OK THEN (accounts \ targets) \cup new ELSE accounts
          /\ lastOp' = Outcome("update_account", actor, err, accountId, {})
    /\ UNCHANGED <<organizations, user_organizations, journal_entries, journal_lines,
                   nextId, session, page>>

\* The Chart of Accounts page after a handler has called loadAccounts and
\* waits for its answer: loadAccounts of src/pages/ChartOfAccounts.tsx starts
\* with setLoading(true), the other copy of the page never sets it.
Reloading(p) ==
    IF p.name = "ChartOfAccounts"
        THEN [p EXCEPT !.pending = TRUE, !.loading = (p.variant = "current")]
        ELSE p

\* handleDeleteAccount: supabase.from('accounts').delete().eq('id', accountId),
\* then loadAccounts.  The store reports no error, whether or not a row was
\* deleted.  (Only src/pages/ChartOfAccounts.tsx has this handler.)
handleDeleteAccount(actor, accountId) ==
    /\ LET gone == AccountsTargets(actor, accountId)
       IN /\ accounts' = AccountsAfterDelete(gone)
          /\ journal_lines' = LinesAfterAccountDelete(gone)
          /\ lastOp' = Outcome("delete_account", actor, OK, accountId, {})
    /\ page' = IF page.name = "ChartOfAccounts" /\ page.variant = "current"
                  THEN Reloading(page) ELSE page
    /\ UNCHANGED <<organizations, user_organizations, journal_entries, nextId,
                   session>>

\* supabase.from('journal_entries').insert({organization_id, date, created_by})
InsertJournalEntry(actor, org, date, createdBy) ==
    /\ nextId < MaxRows
    /\ LET row == [id |-> nextId + 1, organization_id |-> org, date |-> date,
                   created_by |-> createdBy]
           err == EntryInsertError(actor, row)
       IN /\ journal_entries' = IF err = OK THEN journal_entries \cup {row}
                                ELSE journal_entries
          /\ nextId' = IF err = OK THEN nextId + 1 ELSE nextId
          /\ lastOp' = Outcome("insert_entry", actor, err, NULL, {})
    /\ UNCHANGED <<organizations, user_organizations, accounts, journal_lines,
                 session, page>>

\* supabase.from('journal_lines').insert([...]) of the lines `payload`, a
\* sequence of [account_id, debit, credit], for the entry entryId.
InsertJournalLines(actor, entryId, payload) ==
    /\ nextId + Len(payload) <= MaxRows
    /\ LET rows == {[id |-> nextId + i, entry_id |-> entryId,
                     account_id |-> payload[i].account_id,
                     debit |-> payload[i].debit, credit |-> payload[i].credit] :
                       i \in 1..Len(payload)}
           err == LineInsertError(actor, rows)
       IN /\ journal_lines' = IF err = OK THEN journal_lines \cup rows
                              ELSE journal_lines
          /\ nextId' = IF err = OK THEN nextId + Len(payload) ELSE nextId
          /\ lastOp' = Outcome("insert_lines", actor, err, entryId,
                              IF err = OK THEN rows ELSE {})
    /\ UNCHANGED <<organizations, user_organizations, accounts, journal_entries,
                 session, page>>

\* supabase.from('journal_entries').delete().eq('id', id):
\* journal_lines.entry_id ... ON DELETE CASCADE
DeleteJournalEntry(actor, id) ==
    /\ LET gone == {e \in journal_entries : e.id = id /\ EntriesManagePolicy(actor, e)}
       IN /\ journal_entries' = journal_entries \ gone
          /\ journal_lines' = {l \in journal_lines : ~\E g \in gone : g.id = l.entry_id}
          /\ lastOp' = Outcome("delete_entry", actor, OK, id, {})
    /\ UNCHANGED <<organizations, user_organizations, accounts, nextId,
                 session, page>>

\* The read the Dashboard, Reports, Banking and Expenses pages issue:
\* journal_entries of one organization with their journal_lines embedded.
SelectJournalEntries(actor, org) ==
    /\ lastOp' = Outcome("select_entries", actor, OK, NULL,
                    {[entry_id |-> e.id,
                      line_ids |-> {l.id : l \in VisibleLines(actor, e.id)}] :
                        e \in VisibleEntries(actor, org)})
    /\ UNCHANGED <<storeVars, session, page>>

LinePayloads ==
    [account_id : AccountIds, debit : Amounts, credit : Amounts]

Next ==
    \/ \E u \in Users, o \in OrgIds, c \in ManualCodes, t \in LineAccountTypes,
          p \in AccountIds \cup {NULL} : InsertAccount(u, o, c, t, p)
    \/ \E u \in Users, id \in AccountIds : handleDeleteAccount(u, id)
    \/ \E u \in Users, o \in OrgIds, d \in StoreDates, cb \in Users :
          InsertJournalEntry(u, o, d, cb)
    \/ \E u \in Users, e \in EntryIds, l1 \in LinePayloads :
          InsertJournalLines(u, e, <<l1>>)
    \/ \E u \in Users, e \in EntryIds, l1, l2 \in LinePayloads :
          InsertJournalLines(u, e, <<l1, l2>>)
    \/ \E u \in Users, id \in EntryIds : DeleteJournalEntry(u, id)
    \/ \E u \in Users, o \in OrgIds : SelectJournalEntries(u, o)

vars == <<organizations, user_organizations, accounts, journal_entries,
          journal_lines, nextId, lastOp, session, page>>

\* No page is mounted while the requests of Spec are issued.
NoPage == [name |-> "none", loading |-> FALSE, data |-> <<>>, logged |-> FALSE]
NoSession == [user |-> NoUser, currentOrganization |-> "none", year |-> 0,
              tz |-> "UTC"]

Init == StoreInit /\ session = NoSession /\ page = NoPage

Spec == Init /\ [][Next]_vars

\* =================================================== Dashboard and Reports
\* ------------------------------------------------------------------ dates
DateLE(a, b) ==
    \/ a.y < b.y
    \/ a.y = b.y /\ a.m < b.m
    \/ a.y = b.y /\ a.m = b.m /\ a.d <= b.d

DateLT(a, b) == DateLE(a, b) /\ a # b

months == <<"Jan", "Feb", "Mar", "Apr", "May", "Jun",
            "Jul", "Aug", "Sep", "Oct", "Nov", "Dec">>

\* the short month names of a French browser (accents left out)
shortMonthsFr == <<"janv.", "fevr.", "mars", "avr.", "mai", "juin",
                   "juil.", "aout", "sept.", "oct.", "nov.", "dec.">>

\* new Date(entry.date).toLocaleString('default', {month: 'short'}):
\* 'YYYY-MM-DD' parses as midnight UTC and is formatted in the browser's
\* time zone, so west of UTC the local day is the day before; 'default'
\* names no locale, so the month is written in the browser's language.
\* tz names the browser's settings: "UTC" and "west" are English-speaking
\* browsers in those time zones, "fr" a French-speaking one in UTC.
MonthShort(date, tz) ==
    IF tz = "west" /\ date.d = 1
        THEN months[IF date.m = 1 THEN 12 ELSE date.m - 1]
    ELSE IF tz = "fr" THEN shortMonthsFr[date.m]
    ELSE months[date.m]

\* ------------------------------------------------------- the embedded read
NoAccount == [id |-> NULL, type |-> "none", name |-> "none"]

RECURSIVE SeqById(_)
\* the rows of S by ascending id
SeqById(S) ==
    IF S = {} THEN <<>>
    ELSE LET r == CHOOSE r \in S : \A q \in S : r.id <= q.id
         IN <<r>> \o SeqById(S \ {r})

RECURSIVE SeqByDateDesc(_)
\* .order('date', {ascending: false}); rows of one date by ascending id
SeqByDateDesc(S) ==
    IF S = {} THEN <<>>
    ELSE LET r == CHOOSE r \in S :
                    \A q \in S : \/ DateLT(q.date, r.date)
                                 \/ q.date = r.date /\ r.id <= q.id
         IN <<r>> \o SeqByDateDesc(S \ {r})

\* journal_lines (*, accounts (*)) of one entry: an account the actor may
\* not read is embedded as null
EmbeddedLines(actor, entryId) ==
    LET ls == SeqById(VisibleLines(actor, entryId))
    IN [i \in 1..Len(ls) |->
          [id |-> ls[i].id, debit |-> ls[i].debit, credit |-> ls[i].credit,
           accounts |-> IF AccountVisible(actor, ls[i].account_id)
                          THEN LET a == AccountOf(ls[i].account_id)
                               IN [id |-> a.id, type |-> a.type, name |-> a.name]
                          ELSE NoAccount]]

\* .eq('organization_id', org).gte('date', from).lte('date', to)
\* .order('date', {ascending: false})
EntriesResponse(actor, org, from, to) ==
    LET es == SeqByDateDesc({e \in VisibleEntries(actor, org) :
                                DateLE(from, e.date) /\ DateLE(e.date, to)})
    IN [i \in 1..Len(es) |->
          [id |-> es[i].id, date |-> es[i].date,
           journal_lines |-> EmbeddedLines(actor, es[i].id)]]

YearResponse(actor, org, year) ==
    EntriesResponse(actor, org, [y |-> year, m |-> 1, d |-> 1],
                    [y |-> year, m |-> 12, d |-> 31])

\* ------------------------------------------------------------- aggregation
RECURSIVE SeqSum(_)
SeqSum(q) == IF q = <<>> THEN 0 ELSE Head(q) + SeqSum(Tail(q))

\* if (account.type === 'income' && line.credit > 0) totalRevenue += line.credit
LineRevenue(line) ==
    IF line.accounts # NoAccount /\ line.accounts.type = "income" /\ line.credit > 0
        THEN line.credit ELSE 0

\* if (account.type === 'expense' && line.debit > 0) totalExpenses += line.debit
LineExpense(line) ==
    IF line.accounts # NoAccount /\ line.accounts.type = "expense" /\ line.debit > 0
        THEN line.debit ELSE 0

EntryRevenue(entry) ==
    SeqSum([i \in 1..Len(entry.journal_lines) |-> LineRevenue(entry.journal_lines[i])])

EntryExpense(entry) ==
    SeqSum([i \in 1..Len(entry.journal_lines) |-> LineExpense(entry.journal_lines[i])])

TotalRevenue(rows) == SeqSum([i \in 1..Len(rows) |-> EntryRevenue(rows[i])])
TotalExpenses(rows) == SeqSum([i \in 1..Len(rows) |-> EntryExpense(rows[i])])

\* monthlyRevenue[month] / monthlyExpenses[month], read with `|| 0`
MonthlyRevenue(rows, tz, month) ==
    SeqSum([i \in 1..Len(rows) |->
              IF MonthShort(rows[i].date, tz) = month THEN EntryRevenue(rows[i]) ELSE 0])

MonthlyExpenses(rows, tz, month) ==
    SeqSum([i \in 1..Len(rows) |->
              IF MonthShort(rows[i].date, tz) = month THEN EntryExpense(rows[i]) ELSE 0])

\* slice(0, 5): top 5 expense categories; recentTransactions.length < 5
TopCategories == 5
RecentLimit == 5
colors == <<"#3B82F6", "#10B981", "#F59E0B", "#EF4444", "#8B5CF6">>

RECURSIVE FlatLines(_)
\* the lines in the order the nested forEach visits them
FlatLines(rows) ==
    IF rows = <<>> THEN <<>> ELSE Head(rows).journal_lines \o FlatLines(Tail(rows))

\* expensesByCategory[name] = (expensesByCategory[name] || 0) + debit; the
\* object keeps its keys in the order they were first written
Upsert(totals, name, amount) ==
    IF \E i \in 1..Len(totals) : totals[i].name = name
        THEN [i \in 1..Len(totals) |->
                IF totals[i].name = name
                    THEN [name |-> name, value |-> totals[i].value + amount]
                    ELSE totals[i]]
        ELSE Append(totals, [name |-> name, value |-> amount])

RECURSIVE CategoryTotals(_)
CategoryTotals(lines) ==
    IF lines = <<>> THEN <<>>
    ELSE LET n == Len(lines)
             before == CategoryTotals(SubSeq(lines, 1, n - 1))
         IN IF LineExpense(lines[n]) > 0
                THEN Upsert(before, lines[n].accounts.name, lines[n].debit)
                ELSE before

\* Object.entries(expensesByCategory).map(...).slice(0, 5)
ExpenseBreakdown(rows) ==
    LET totals == CategoryTotals(FlatLines(rows))
        shown == SubSeq(totals, 1, IF Len(totals) < TopCategories
                                     THEN Len(totals) ELSE TopCategories)
    IN [i \in 1..Len(shown) |->
          [name |-> shown[i].name, value |-> shown[i].value,
           color |-> colors[((i - 1) % 5) + 1]]]

\* the reduce over an entry's lines: + credit on income, - debit on expense
EntryAmount(entry) ==
    SeqSum([i \in 1..Len(entry.journal_lines) |->
              LET line == entry.journal_lines[i]
              IN IF line.accounts.type = "income" THEN line.credit
                 ELSE IF line.accounts.type = "expense" THEN 0 - line.debit
                 ELSE 0])

RecentTransactions(rows) ==
    LET shown == SubSeq(rows, 1, IF Len(rows) < RecentLimit THEN Len(rows)
                                 ELSE RecentLimit)
    IN [i \in 1..Len(shown) |->
          [id |-> shown[i].id, amount |-> EntryAmount(shown[i]),
           type |-> IF EntryAmount(shown[i]) > 0 THEN "income" ELSE "expense",
           date |-> shown[i].date]]

\* the zeroed data set on a failed read (and the initial state)
DashboardEmpty ==
    [totalRevenue |-> 0, totalExpenses |-> 0, netProfit |-> 0,
     outstandingInvoices |-> 0, recentTransactions |-> <<>>,
     monthlyData |-> <<>>, expenseBreakdown |-> <<>>]

\* what loadDashboardData passes to setDashboardData on a successful read
DashboardSnapshot(rows, tz) ==
    [totalRevenue |-> TotalRevenue(rows),
     totalExpenses |-> TotalExpenses(rows),
     netProfit |-> TotalRevenue(rows) - TotalExpenses(rows),
     outstandingInvoices |-> 0,
     recentTransactions |-> RecentTransactions(rows),
     monthlyData |-> [i \in 1..12 |->
                        [month |-> months[i],
                         inflow |-> MonthlyRevenue(rows, tz, months[i]),
                         outflow |-> MonthlyExpenses(rows, tz, months[i])]],
     expenseBreakdown |-> ExpenseBreakdown(rows)]

RECURSIVE GCD(_, _)
GCD(a, b) == IF b = 0 THEN a ELSE GCD(b, a % b)

Abs(x) == IF x < 0 THEN 0 - x ELSE x

\* the exact value n / d (d > 0) in lowest terms; the page holds it as a
\* double
Ratio(n, d) ==
    LET g == GCD(Abs(n), d) IN [num |-> n \div g, den |-> d \div g]

\* the margin without the guard on totalRevenue: 0 / 0 is NaN, here 0 over 0
ProfitMarginUnguarded(netProfit, totalRevenue) ==
    IF totalRevenue # 0 THEN Ratio(netProfit * 100, Abs(totalRevenue))
    ELSE [num |-> 0, den |-> 0]

\* the margin left as a fraction, not a percentage
ProfitMarginAsFraction(netProfit, totalRevenue) ==
    IF totalRevenue > 0 THEN Ratio(netProfit, totalRevenue)
    ELSE [num |-> 0, den |-> 1]

\* totalRevenue > 0 ? (netProfit / totalRevenue) * 100 : 0
ProfitMargin(netProfit, totalRevenue) ==
    IF totalRevenue > 0 THEN Ratio(netProfit * 100, totalRevenue)
    ELSE [num |-> 0, den |-> 1]

ReportEmpty ==
    [totalRevenue |-> 0, totalExpenses |-> 0, netProfit |-> 0,
     profitMargin |-> [num |-> 0, den |-> 1], monthlyData |-> <<>>,
     quarterlyData |-> <<>>]

\* monthly rows keyed by the English month names whatever the browser
ReportMonthlyEnglish(rows, tz) ==
    [i \in 1..12 |->
       [month |-> months[i],
        revenue |-> MonthlyRevenue(rows, "UTC", months[i]),
        expenses |-> MonthlyExpenses(rows, "UTC", months[i]),
        profit |-> MonthlyRevenue(rows, "UTC", months[i])
                     - MonthlyExpenses(rows, "UTC", months[i])]]

ReportMonthly(rows, tz) ==
    [i \in 1..12 |->
       [month |-> months[i],
        revenue |-> MonthlyRevenue(rows, tz, months[i]),
        expenses |-> MonthlyExpenses(rows, tz, months[i]),
        profit |-> MonthlyRevenue(rows, tz, months[i])
                     - MonthlyExpenses(rows, tz, months[i])]]

\* monthlyData.slice(3q, 3q + 3).reduce((sum, m) => sum + m.revenue, 0)
ReportQuarterly(monthly) ==
    [q \in 1..4 |->
       [quarter |-> q,
        value |-> monthly[3 * q - 2].revenue + monthly[3 * q - 1].revenue
                    + monthly[3 * q].revenue]]

\* what loadReportData passes to setReportData on a successful read
ReportSnapshot(rows, tz) ==
    LET netProfit == TotalRevenue(rows) - TotalExpenses(rows)
    IN [totalRevenue |-> TotalRevenue(rows),
        totalExpenses |-> TotalExpenses(rows),
        netProfit |-> netProfit,
        profitMargin |-> ProfitMargin(netProfit, TotalRevenue(rows)),
        monthlyData |-> ReportMonthly(rows, tz),
        quarterlyData |-> ReportQuarterly(ReportMonthly(rows, tz))]

\* ------------------------------------------------------------ page loaders
\* a page that keeps no trace of console.error
MountedSilently(name, data, logged) ==
    [name |-> name, loading |-> FALSE, data |-> data, logged |-> FALSE]

Mounted(name, data, logged) ==
    [name |-> name, loading |-> FALSE, data |-> data, logged |-> logged]

\* Dashboard: loadDashboardData.  The read of the current year's entries
\* either answers or fails (entriesError, or a thrown error); a failure is
\* written to the console and the zeroed data set is shown.
loadDashboardData ==
    /\ session.currentOrganization # "none"
    /\ \E failed \in BOOLEAN :
          page' = IF failed
                    THEN Mounted("Dashboard", DashboardEmpty, TRUE)
                    ELSE Mounted("Dashboard",
                           DashboardSnapshot(
                             YearResponse(session.user, session.currentOrganization,
                                          session.year), session.tz), FALSE)
    /\ UNCHANGED <<storeVars, lastOp, session>>

\* Reports: loadReportData
loadReportData ==
    /\ session.currentOrganization # "none"
    /\ \E failed \in BOOLEAN :
          page' = IF failed
                    THEN Mounted("Reports", ReportEmpty, TRUE)
                    ELSE Mounted("Reports",
                           ReportSnapshot(
                             YearResponse(session.user, session.currentOrganization,
                                          session.year), session.tz), FALSE)
    /\ UNCHANGED <<storeVars, lastOp, session>>

\* ---------------------------------------------------------------- SpecAgg
\* The aggregations are functions of the stored ledger: SpecAgg starts from
\* every small ledger of organization o1 and lets u1 open the pages.
AggAccounts ==
    {[id |-> 1, organization_id |-> "o1", code |-> "4000", name |-> "Sales Revenue",
      type |-> "income", parent_account_id |-> NULL, is_active |-> TRUE],
     [id |-> 2, organization_id |-> "o1", code |-> "6100", name |-> "Rent Expense",
      type |-> "expense", parent_account_id |-> NULL, is_active |-> TRUE],
     [id |-> 3, organization_id |-> "o1", code |-> "1000",
      name |-> "Cash and Cash Equivalents",
      type |-> "asset", parent_account_id |-> NULL, is_active |-> TRUE],
     [id |-> 4, organization_id |-> "o2", code |-> "6100", name |-> "Rent Expense",
      type |-> "expense", parent_account_id |-> NULL, is_active |-> TRUE]}

\* a line debits 400.00 or credits 1000.00 (in cents), or neither
AggDebits == {0, 40000}
AggCredits == {0, 100000}
AggAmountPairs ==
    {p \in AggDebits \X AggCredits : ~(p[1] > 0 /\ p[2] > 0)}

AggYear == 2026
AggDates ==
    {[y |-> 2025, m |-> 12, d |-> 31], [y |-> 2026, m |-> 1, d |-> 1],
     [y |-> 2026, m |-> 6, d |-> 15], [y |-> 2026, m |-> 12, d |-> 31],
     [y |-> 2027, m |-> 1, d |-> 1]}

AggEntry(id, date) ==
    [id |-> id, organization_id |-> "o1", date |-> date, created_by |-> "u1"]

\* no entry, one entry of any date, or a mid-June entry and one of any date
AggEntries(n, date) ==
    IF n = 0 THEN {}
    ELSE IF n = 1 THEN {AggEntry(11, date)}
    ELSE {AggEntry(11, [y |-> 2026, m |-> 6, d |-> 15]), AggEntry(12, date)}

\* the stored ledger
AggStore ==
    /\ organizations = {[id |-> "o1", owner_user_id |-> "u1"],
                        [id |-> "o2", owner_user_id |-> "u2"]}
    /\ user_organizations =
         {[user_id |-> "u1", organization_id |-> "o1", role |-> "owner", status |-> "active"],
          [user_id |-> "u2", organization_id |-> "o2", role |-> "owner", status |-> "active"]}
    /\ accounts = AggAccounts
    /\ \E n \in 0..2, date \in AggDates :
          /\ journal_entries = AggEntries(n, date)
          /\ \E k \in 0..MaxAggLines :
                \E f \in [1..k -> [entry_id : {e.id : e \in AggEntries(n, date)},
                                   account_id : {a.id : a \in AggAccounts},
                                   amount : AggAmountPairs]] :
                   journal_lines =
                     {[id |-> 20 + i, entry_id |-> f[i].entry_id,
                       account_id |-> f[i].account_id,
                       debit |-> f[i].amount[1], credit |-> f[i].amount[2]] :
                         i \in 1..k}
    /\ nextId = 20 + MaxAggLines
    /\ lastOp = [op |-> "none", actor |-> NoUser, error |-> OK, target |-> NULL,
                 rows |-> {}]

AggInit ==
    /\ AggStore
    /\ session = [user |-> "u1", currentOrganization |-> "o1", year |-> AggYear,
                  tz |-> "UTC"]
    /\ page = NoPage

AggNext == loadDashboardData \/ loadReportData

SpecAgg == AggInit /\ [][AggNext]_vars

\* --------------------------------------------------------------- SpecMonths
\* the same ledgers and pages, in a browser whose time zone is UTC or west
\* of UTC
TimeZones == {"UTC", "west"}

MonthsInit ==
    /\ AggStore
    /\ \E tz \in TimeZones :
          session = [user |-> "u1", currentOrganization |-> "o1", year |-> AggYear,
                     tz |-> tz]
    /\ page = NoPage

MonthsNext == loadDashboardData \/ loadReportData

SpecMonths == MonthsInit /\ [][MonthsNext]_vars

\* ------------------------------------------------------------------ Banking
\* names of the model's accounts that contain 'cash', 'bank', 'checking' or
\* 'savings' (compared in lower case)
BankLikeNames == {"Cash and Cash Equivalents"}
BankingLimit == 50

\* accounts .eq('organization_id', org).eq('type', 'asset').eq('is_active', true)
\* filtered by name; every balance is initialised to 0 and never assigned again
BankAccounts(actor, org) ==
    LET as == SeqById({a \in accounts :
                         /\ a.organization_id = org
                         /\ AccountsSelectPolicy(actor, a) \/ AccountsManagePolicy(actor, a)
                         /\ a.type = "asset" /\ a.is_active
                         /\ a.name \in BankLikeNames})
    IN [i \in 1..Len(as) |-> [id |-> as[i].id, name |-> as[i].name, balance |-> 0]]

\* journal entries of the organization, newest first, .limit(50)
BankingResponse(actor, org) ==
    LET far == [y |-> 9999, m |-> 12, d |-> 31]
        all == EntriesResponse(actor, org, [y |-> 0, m |-> 1, d |-> 1], far)
    IN SubSeq(all, 1, IF Len(all) < BankingLimit THEN Len(all) ELSE BankingLimit)

RECURSIVE BankTransactions(_)
\* one transaction per line with a readable account and a non-zero amount
BankTransactions(lines) ==
    IF lines = <<>> THEN <<>>
    ELSE LET line == Head(lines)
         IN (IF line.accounts # NoAccount /\ (line.debit > 0 \/ line.credit > 0)
                THEN <<[id |-> line.id,
                        amount |-> IF line.debit > 0 THEN 0 - line.debit
                                   ELSE line.credit,
                        category |-> line.accounts.name]>>
                ELSE <<>>) \o BankTransactions(Tail(lines))

\* Banking: loadBankingData.  The accounts request or the entries request
\* may fail; after a failed entries request the bank accounts stay shown.
loadBankingData ==
    /\ session.currentOrganization # "none"
    /\ \E failed \in {"none", "accounts", "entries"} :
          LET banks == BankAccounts(session.user, session.currentOrganization)
              rows == BankingResponse(session.user, session.currentOrganization)
          IN page' = Mounted("Banking",
                       [bankAccounts |-> IF failed = "accounts" THEN <<>> ELSE banks,
                        selectedAccount |-> IF failed = "accounts" \/ banks = <<>>
                                              THEN NULL ELSE banks[1].id,
                        transactions |-> IF failed = "none"
                                           THEN BankTransactions(FlatLines(rows))
                                           ELSE <<>>],
                       failed # "none")
    /\ UNCHANGED <<storeVars, lastOp, session>>

\* ----------------------------------------------------------------- SpecBank
\* the ledgers of SpecAgg, with u1 opening the Banking page
BankNext == loadBankingData

SpecBank == AggInit /\ [][BankNext]_vars

\* ----------------------------------------------------------------- Expenses
\* journal_entries with journal_lines (*, accounts!inner (*)), every date,
\* newest first: the inner join leaves out a line whose account the actor
\* may not read
ExpensesResponse(actor, org) ==
    LET all == EntriesResponse(actor, org, [y |-> 0, m |-> 1, d |-> 1],
                               [y |-> 9999, m |-> 12, d |-> 31])
    IN [i \in 1..Len(all) |->
          [all[i] EXCEPT !.journal_lines =
              SelectSeq(all[i].journal_lines, LAMBDA line : line.accounts # NoAccount)]]

RECURSIVE ExpenseList(_)
\* expensesData: one expense per line with a debit on an expense account
ExpenseList(lines) ==
    IF lines = <<>> THEN <<>>
    ELSE (IF LineExpense(Head(lines)) > 0
             THEN <<[id |-> Head(lines).id, amount |-> Head(lines).debit,
                     category |-> Head(lines).accounts.name]>>
             ELSE <<>>) \o ExpenseList(Tail(lines))

ExpensesEmpty == [expenses |-> <<>>, expenseCategories |-> <<>>]

\* Expenses: loadExpenses.  On a failed read the page toasts, logs and keeps
\* what it shows.
loadExpenses ==
    /\ session.currentOrganization # "none"
    /\ \E failed \in BOOLEAN :
          LET rows == ExpensesResponse(session.user, session.currentOrganization)
          IN page' = IF failed
                       THEN Mounted("Expenses",
                                    IF page.name = "Expenses" THEN page.data
                                    ELSE ExpensesEmpty, TRUE)
                       ELSE Mounted("Expenses",
                                    [expenses |-> ExpenseList(FlatLines(rows)),
                                     expenseCategories |-> ExpenseBreakdown(rows)],
                                    FALSE)
    /\ UNCHANGED <<storeVars, lastOp, session>>

\* ------------------------------------------------------------ SpecBreakdown
\* Organization o1 with six expense accounts and an income account; one
\* entry of the current year debits each account at most once (line ids in
\* account order) and up to MaxExtraLines further lines debit any account.
\* u1 opens the Dashboard and the Expenses page.
BreakdownNames ==
    <<"Rent Expense", "Cost of Goods Sold", "Utilities Expense",
      "Marketing Expense", "Operating Expenses", "Travel Expense">>

BreakdownCodes == <<"6100", "5000", "6200", "6300", "6000", "6400">>

BreakdownAccounts ==
    {[id |-> 30 + i, organization_id |-> "o1", code |-> BreakdownCodes[i],
      name |-> BreakdownNames[i], type |-> "expense",
      parent_account_id |-> NULL, is_active |-> TRUE] : i \in 1..Len(BreakdownNames)}
    \cup {[id |-> 30, organization_id |-> "o1", code |-> "4000",
           name |-> "Sales Revenue", type |-> "income",
           parent_account_id |-> NULL, is_active |-> TRUE]}

BreakdownDebits == {100, 200}
MaxExtraLines == 1

BreakdownInit ==
    /\ organizations = {[id |-> "o1", owner_user_id |-> "u1"],
                        [id |-> "o2", owner_user_id |-> "u2"]}
    /\ user_organizations =
         {[user_id |-> "u1", organization_id |-> "o1", role |-> "owner", status |-> "active"],
          [user_id |-> "u2", organization_id |-> "o2", role |-> "owner", status |-> "active"]}
    /\ accounts = BreakdownAccounts
    /\ journal_entries = {AggEntry(11, [y |-> 2026, m |-> 6, d |-> 15])}
    /\ \E f \in [{a.id : a \in BreakdownAccounts} -> {0} \cup BreakdownDebits],
          k \in 0..MaxExtraLines :
          \E g \in [1..k -> {a.id : a \in BreakdownAccounts}] :
             journal_lines =
                {[id |-> 10 + id, entry_id |-> 11, account_id |-> id,
                  debit |-> f[id], credit |-> 0] :
                    id \in {x \in DOMAIN f : f[x] > 0}}
                \cup {[id |-> 50 + j, entry_id |-> 11, account_id |-> g[j],
                       debit |-> 100, credit |-> 0] : j \in 1..k}
    /\ nextId = 50 + MaxExtraLines
    /\ lastOp = [op |-> "none", actor |-> NoUser, error |-> OK, target |-> NULL,
                 rows |-> {}]
    /\ session = [user |-> "u1", currentOrganization |-> "o1", year |-> AggYear,
                  tz |-> "UTC"]
    /\ page = NoPage

BreakdownNext == loadDashboardData \/ loadExpenses

SpecBreakdown == BreakdownInit /\ [][BreakdownNext]_vars

\* ----------------------------------------------------------- SpecDeactivate
\* One entry of the current year with up to MaxDeactLines lines on the
\* accounts of SpecAgg; u1 switches is_active of accounts off and on and
\* opens the Dashboard and the Expenses page.
MaxDeactLines == 2

DeactInit ==
    /\ organizations = {[id |-> "o1", owner_user_id |-> "u1"],
                        [id |-> "o2", owner_user_id |-> "u2"]}
    /\ user_organizations =
         {[user_id |-> "u1", organization_id |-> "o1", role |-> "owner", status |-> "active"],
          [user_id |-> "u2", organization_id |-> "o2", role |-> "owner", status |-> "active"]}
    /\ accounts = AggAccounts
    /\ journal_entries = {AggEntry(11, [y |-> 2026, m |-> 6, d |-> 15])}
    /\ \E k \in 0..MaxDeactLines :
          \E f \in [1..k -> [account_id : {a.id : a \in AggAccounts},
                             amount : AggAmountPairs]] :
             journal_lines =
               {[id |-> 20 + i, entry_id |-> 11, account_id |-> f[i].account_id,
                 debit |-> f[i].amount[1], credit |-> f[i].amount[2]] : i \in 1..k}
    /\ nextId = 20 + MaxDeactLines
    /\ lastOp = [op |-> "none", actor |-> NoUser, error |-> OK, target |-> NULL,
                 rows |-> {}]
    /\ session = [user |-> "u1", currentOrganization |-> "o1", year |-> AggYear,
                  tz |-> "UTC"]
    /\ page = NoPage

DeactNext ==
    \/ \E id \in AccountIds, active \in BOOLEAN :
          UpdateAccount(session.user, id, AccountOf(id).parent_account_id, active)
    \/ loadDashboardData
    \/ loadExpenses

SpecDeactivate == DeactInit /\ [][DeactNext]_vars

\* ======================================================= Chart of Accounts
\* supabase.from('accounts').select('*').eq('organization_id', org)
\* .order('code'): the rows the actor may read, by ascending code
RECURSIVE SeqByCode(_)
CodeOrder == <<"1000", "1100", "1200", "1500", "2000", "2100", "2500", "3000",
               "3100", "4000", "4100", "5000", "6000", "6100", "6200", "6300",
               "9000">>
CodeRank(code) == CHOOSE i \in 1..Len(CodeOrder) : CodeOrder[i] = code
SeqByCode(S) ==
    IF S = {} THEN <<>>
    ELSE LET r == CHOOSE r \in S :
                    \A q \in S : \/ CodeRank(r.code) < CodeRank(q.code)
                                 \/ r.code = q.code /\ r.id <= q.id
         IN <<r>> \o SeqByCode(S \ {r})

AccountsResponse(actor, org) ==
    SeqByCode({a \in accounts :
                 /\ a.organization_id = org
                 /\ AccountsSelectPolicy(actor, a) \/ AccountsManagePolicy(actor, a)})

RECURSIVE SelectIds(_, _)
\* ids of the rows of data that satisfy keep, in order
SelectIds(data, keep) ==
    IF data = <<>> THEN <<>>
    ELSE (IF keep[Head(data).id] THEN <<Head(data).id>> ELSE <<>>)
            \o SelectIds(Tail(data), keep)

DataIds(data) == {data[i].id : i \in 1..Len(data)}

\* second pass of loadAccounts: children of each account of the map
ChildrenOf(data) ==
    [id \in DataIds(data) |->
       SelectIds(data, [c \in DataIds(data) |->
                          \E i \in 1..Len(data) :
                             data[i].id = c /\ data[i].parent_account_id = id])]

\* src/pages/ChartOfAccounts.tsx: an account without parent, or whose
\* parent is not in the map, is pushed to rootAccounts
BuildForest(data) ==
    [roots |-> SelectIds(data, [c \in DataIds(data) |->
                  \E i \in 1..Len(data) :
                     /\ data[i].id = c
                     /\ \/ data[i].parent_account_id = NULL
                        \/ data[i].parent_account_id \notin DataIds(data)]),
     children |-> ChildrenOf(data)]

\* the other copy of the page (part_005): only an account without parent is
\* pushed to rootAccounts; there is no else branch for a missing parent
BuildForestLegacy(data) ==
    [roots |-> SelectIds(data, [c \in DataIds(data) |->
                  \E i \in 1..Len(data) :
                     data[i].id = c /\ data[i].parent_account_id = NULL]),
     children |-> ChildrenOf(data)]

EmptyForest == [roots |-> <<>>, children |-> <<>>]

\* the page's state: loading (the spinner replaces the page), accounts (the
\* forest), whether a loadAccounts is awaited, whether an error was logged
ChartPage(variant, loading, forest, pending, logged) ==
    [name |-> "ChartOfAccounts", variant |-> variant, loading |-> loading,
     data |-> forest, pending |-> pending, logged |-> logged]

\* loadAccounts, on mount and after a change, when its request is answered:
\* reads the accounts of the current organization and rebuilds the forest; on
\* an error the page logs it and keeps what it shows.  Both ways end with
\* setLoading(false).
loadAccounts ==
    /\ session.currentOrganization # "none"
    /\ page.name = "ChartOfAccounts"
    /\ \E failed \in BOOLEAN :
          LET data == AccountsResponse(session.user, session.currentOrganization)
          IN /\ lastOp' = Outcome("select_accounts", session.user,
                                  IF failed THEN "network" ELSE OK, NULL,
                                  IF failed THEN {} ELSE DataIds(data))
             /\ page' = IF failed
                          THEN ChartPage(page.variant, FALSE, page.data, FALSE, TRUE)
                          ELSE ChartPage(page.variant, FALSE,
                                 IF page.variant = "legacy"
                                     THEN BuildForestLegacy(data)
                                     ELSE BuildForest(data),
                                 FALSE, FALSE)
    /\ UNCHANGED <<storeVars, session>>

\* the accounts the page renders: renderAccount walks rootAccounts and the
\* children of every account it renders
RECURSIVE Rendered(_, _, _)
Rendered(forest, frontier, depth) ==
    IF depth = 0 \/ frontier = {} THEN frontier
    ELSE frontier \cup
           Rendered(forest,
                    UNION {{forest.children[id][i] :
                              i \in 1..Len(forest.children[id])} : id \in frontier},
                    depth - 1)

RenderedIds(forest) ==
    Rendered(forest, {forest.roots[i] : i \in 1..Len(forest.roots)},
             Cardinality(DOMAIN forest.children))

\* --------------------------------------------------------------- SpecForest
\* u1 has the Chart of Accounts page of o1 open (either copy of the page)
\* while u1 and u2 send account requests to the store.
ForestTypes == {"asset"}
MaxForestRows == 3

ForestInit ==
    /\ StoreInit
    /\ session = [user |-> "u1", currentOrganization |-> "o1", year |-> 2026,
                  tz |-> "UTC"]
    /\ \E v \in {"current", "legacy"} : page = ChartPage(v, TRUE, EmptyForest, TRUE, FALSE)

ForestNext ==
    \/ \E u \in Users, o \in OrgIds, c \in ManualCodes, t \in ForestTypes,
          p \in AccountIds \cup {NULL} :
          nextId < MaxForestRows /\ InsertAccount(u, o, c, t, p)
    \/ \E id \in AccountIds, p \in AccountIds \cup {NULL} :
          UpdateAccount(session.user, id, p, TRUE)
    \/ \E id \in AccountIds : handleDeleteAccount(session.user, id)
    \/ loadAccounts

SpecForest == ForestInit /\ [][ForestNext]_vars

\* ---------------------------------------------------------------- SpecCodes
\* u1 and u2 insert and delete accounts of both organizations; no page is
\* mounted.
CodesInit == StoreInit /\ session = NoSession /\ page = NoPage

CodesNext ==
    \/ \E u \in Users, o \in OrgIds, c \in ManualCodes, t \in ForestTypes,
          p \in AccountIds \cup {NULL} : InsertAccount(u, o, c, t, p)
    \/ \E u \in Users, id \in AccountIds : handleDeleteAccount(u, id)

SpecCodes == CodesInit /\ [][CodesNext]_vars

\* ----------------------------------------------------------------- seeding
\* the literal of createDefaultAccounts, the same in both copies of the page
defaultAccounts ==
    << [code |-> "1000", name |-> "Cash and Cash Equivalents", type |-> "asset"],
       [code |-> "1100", name |-> "Accounts Receivable", type |-> "asset"],
       [code |-> "1200", name |-> "Inventory", type |-> "asset"],
       [code |-> "1500", name |-> "Equipment", type |-> "asset"],
       [code |-> "2000", name |-> "Accounts Payable", type |-> "liability"],
       [code |-> "2100", name |-> "Accrued Expenses", type |-> "liability"],
       [code |-> "2500", name |-> "Long-term Debt", type |-> "liability"],
       [code |-> "3000", name |-> "Owner's Equity", type |-> "equity"],
       [code |-> "3100", name |-> "Retained Earnings", type |-> "equity"],
       [code |-> "4000", name |-> "Sales Revenue", type |-> "income"],
       [code |-> "4100", name |-> "Service Revenue", type |-> "income"],
       [code |-> "5000", name |-> "Cost of Goods Sold", type |-> "expense"],
       [code |-> "6000", name |-> "Operating Expenses", type |-> "expense"],
       [code |-> "6100", name |-> "Rent Expense", type |-> "expense"],
       [code |-> "6200", name |-> "Utilities Expense", type |-> "expense"],
       [code |-> "6300", name |-> "Marketing Expense", type |-> "expense"] >>

MaxSeedIds == 18

\* the page is rendered (no spinner) and shows no account: both "Create
\* Default Accounts" buttons are rendered only when accounts.length === 0
SeedButtonShown ==
    /\ page.name = "ChartOfAccounts"
    /\ ~page.loading
    /\ page.data.roots = <<>>

\* createDefaultAccounts: one insert of the sixteen default accounts for the
\* current organization, then loadAccounts.  src/pages/ChartOfAccounts.tsx
\* wraps the handler in setLoading(true) ... finally setLoading(false); the
\* other copy of the page does not touch loading.
createDefaultAccounts ==
    /\ session.currentOrganization # "none"
    /\ SeedButtonShown
    /\ nextId <= MaxSeedIds
    /\ LET rows == {[id |-> nextId + i,
                     organization_id |-> session.currentOrganization,
                     code |-> defaultAccounts[i].code,
                     name |-> defaultAccounts[i].name,
                     type |-> defaultAccounts[i].type,
                     parent_account_id |-> NULL,
                     is_active |-> TRUE] : i \in 1..Len(defaultAccounts)}
           err == AccountsInsertError(session.user, rows)
       IN /\ accounts' = IF err = OK THEN accounts \cup rows ELSE accounts
          /\ nextId' = IF err = OK THEN nextId + Len(defaultAccounts) ELSE nextId
          /\ lastOp' = Outcome("seed_accounts", session.user, err, NULL, {})
          /\ page' = IF err = OK THEN Reloading(page)
                     ELSE [page EXCEPT !.logged = TRUE, !.loading = FALSE]
    /\ UNCHANGED <<organizations, user_organizations, journal_entries, journal_lines,
                   session>>

\* handleAddAccount of src/pages/ChartOfAccounts.tsx: the form sends code,
\* name and type (never a parent); after a successful insert, loadAccounts.
handleAddAccount(code, name, type) ==
    /\ session.currentOrganization # "none"
    /\ page.name = "ChartOfAccounts" /\ page.variant = "current" /\ ~page.loading
    /\ code # "" /\ name # ""
    /\ nextId < MaxSeedIds
    /\ LET row == [id |-> nextId + 1,
                   organization_id |-> session.currentOrganization,
                   code |-> code, name |-> name, type |-> type,
                   parent_account_id |-> NULL, is_active |-> TRUE]
           err == AccountsInsertError(session.user, {row})
       IN /\ accounts' = IF err = OK THEN accounts \cup {row} ELSE accounts
          /\ nextId' = IF err = OK THEN nextId + 1 ELSE nextId
          /\ lastOp' = Outcome("insert_account", session.user, err, NULL, {})
          /\ page' = IF err = OK THEN Reloading(page)
                     ELSE [page EXCEPT !.logged = TRUE]
    /\ UNCHANGED <<organizations, user_organizations, journal_entries, journal_lines,
                   session>>

\* ----------------------------------------------------------------- SpecSeed
\* u1, owner of o1, works on the Chart of Accounts page (either copy): seeds
\* the default chart, adds accounts by the form, deletes accounts the page
\* lists.  Every request is answered before the next click, except
\* loadAccounts, whose answer may come after further clicks.
SeedInit ==
    /\ StoreInit
    /\ session = [user |-> "u1", currentOrganization |-> "o1", year |-> 2026,
                  tz |-> "UTC"]
    /\ \E v \in {"current", "legacy"} :
          page = ChartPage(v, TRUE, EmptyForest, TRUE, FALSE)

\* accounts the form codes can name: the rows the page's delete button is
\* exercised on
FormAccountIds == {a.id : a \in {b \in accounts : b.code \in ManualCodes}}

SeedNext ==
    \/ createDefaultAccounts
    \/ \E c \in ManualCodes, t \in ForestTypes : handleAddAccount(c, c, t)
    \/ \E id \in FormAccountIds \cap RenderedIds(page.data) :
          /\ page.variant = "current" /\ ~page.loading
          /\ handleDeleteAccount(session.user, id)
    \/ loadAccounts

SpecSeed == SeedInit /\ [][SeedNext]_vars

\* ===================================================== claims on the store
EntriesOfOrg(o) == {e \in journal_entries : e.organization_id = o}
AccountsOfOrg(o) == {a \in accounts : a.organization_id = o}
LinesOfOrg(o) ==
    {l \in journal_lines :
        \E e \in journal_entries : e.id = l.entry_id /\ e.organization_id = o}

\* C1  Balance invariant: every stored journal entry has the sum of its
\* lines' debits equal to the sum of its lines' credits.
BalanceInvariant ==
    \A e \in journal_entries : SumDebit(LinesOf(e.id)) = SumCredit(LinesOf(e.id))

\* C2  Line exclusivity: every stored journal line has exactly one of debit
\* and credit strictly positive and the other zero.
LineExclusivity ==
    \A l \in journal_lines :
        \/ l.debit > 0 /\ l.credit = 0
        \/ l.credit > 0 /\ l.debit = 0

\* C3  Deletion guard: a delete request for an account that journal lines
\* reference is answered with an error, and the account and the lines that
\* reference it are stored unchanged afterwards.
DeletionGuard ==
    [][\A a \in accounts :
          (/\ lastOp'.op = "delete_account"
           /\ lastOp'.target = a.id
           /\ \E l \in journal_lines : l.account_id = a.id)
          => /\ lastOp'.error # OK
             /\ a \in accounts'
             /\ \A l \in journal_lines : l.account_id = a.id => l \in journal_lines']_vars

\* C4  Tenant isolation: a request reads, inserts, updates or deletes
\* accounts, journal entries or journal lines of an organization only if its
\* actor holds an active membership of that organization.
TenantIsolation ==
    [][\A o \in OrgIds :
          (\/ AccountsOfOrg(o)' # AccountsOfOrg(o)
           \/ EntriesOfOrg(o)' # EntriesOfOrg(o)
           \/ LinesOfOrg(o)' # LinesOfOrg(o)
           \/ /\ lastOp'.op = "select_entries"
              /\ \E r \in lastOp'.rows, e \in EntriesOfOrg(o) : r.entry_id = e.id)
          => IsActiveMember(lastOp'.actor, o)]_vars

\* C5  Rejection of unbalanced input: an insert of lines whose debits and
\* credits differ in sum is answered with an error and stores none of them.
RejectUnbalanced ==
    lastOp.op = "insert_lines"
        => \/ SumDebit(lastOp.rows) = SumCredit(lastOp.rows)
           \/ lastOp.error # OK /\ lastOp.rows \cap journal_lines = {}

\* C6  Atomic entry creation: no read returns a journal entry without lines.
AtomicVisibility ==
    lastOp.op = "select_entries" => \A r \in lastOp.rows : r.line_ids # {}

\* ============================================== claims on the aggregations
\* the stored lines of the session's organization dated in the session's
\* year whose account is an account of that organization of type t
LinesInYear(t) ==
    {l \in journal_lines :
        /\ \E e \in journal_entries :
              /\ e.id = l.entry_id
              /\ e.organization_id = session.currentOrganization
              /\ e.date.y = session.year
        /\ \E a \in accounts :
              /\ a.id = l.account_id
              /\ a.organization_id = session.currentOrganization
              /\ a.type = t}

Computed(name) == page.name = name /\ ~page.logged

\* C8  Sign convention in totals: totalRevenue is the sum of credit - debit
\* over the lines on income accounts and totalExpenses the sum of
\* debit - credit over the lines on expense accounts, for the entries of the
\* year.
SignConvention ==
    (Computed("Dashboard") \/ Computed("Reports"))
        => /\ page.data.totalRevenue =
                SumCredit(LinesInYear("income")) - SumDebit(LinesInYear("income"))
           /\ page.data.totalExpenses =
                SumDebit(LinesInYear("expense")) - SumCredit(LinesInYear("expense"))

\* C9  Derived profit figures: netProfit = totalRevenue - totalExpenses on
\* both pages; on Reports profitMargin is 0 when totalRevenue is not positive
\* and otherwise netProfit / totalRevenue as a percentage; 1000.00 of income
\* and 400.00 of expenses give 600.00 and 60.
ProfitFigures ==
    /\ page.name \in {"Dashboard", "Reports"}
          => page.data.netProfit = page.data.totalRevenue - page.data.totalExpenses
    /\ page.name = "Reports"
          => LET d == page.data
             IN /\ d.totalRevenue <= 0 => d.profitMargin = [num |-> 0, den |-> 1]
                /\ d.totalRevenue > 0 =>
                      /\ d.profitMargin.den > 0
                      /\ d.profitMargin.num * d.totalRevenue
                            = 100 * d.netProfit * d.profitMargin.den
                /\ (d.totalRevenue = 100000 /\ d.totalExpenses = 40000) =>
                      d.netProfit = 60000 /\ d.profitMargin = [num |-> 60, den |-> 1]

\* C9 witness: the report of 1000.00 income and 400.00 expenses
ProfitFiguresWitness ==
    /\ Computed("Reports")
    /\ page.data.totalRevenue = 100000
    /\ page.data.totalExpenses = 40000
    /\ page.data.netProfit = 60000
    /\ page.data.profitMargin = [num |-> 60, den |-> 1]

\* ----------------------------------------------------- claims on the chart
ShownOrgAccounts == AccountsOfOrg(session.currentOrganization)
ShownOrgIds == {a.id : a \in ShownOrgAccounts}
SeqIds(q) == {q[i] : i \in 1..Len(q)}
ListedOnce(forest, id) ==
    Cardinality({i \in 1..Len(forest.roots) : forest.roots[i] = id})
    + Cardinality({<<p, i>> \in UNION {{<<p, i>> : i \in 1..Len(forest.children[p])} :
                                         p \in DOMAIN forest.children} :
                     forest.children[p][i] = id}) = 1

\* C10 account forest completeness: right after the account listing has
\* answered, every stored account of the organization is in the forest the
\* page renders, exactly once; an account without parent is a root, an
\* account whose parent is an account of the organization is among that
\* parent's children, and an account whose parent does not resolve to an
\* account of the organization is a root.
ForestComplete ==
    (page.name = "ChartOfAccounts" /\ lastOp.op = "select_accounts"
        /\ lastOp.error = OK) =>
       /\ RenderedIds(page.data) = ShownOrgIds
       /\ \A a \in ShownOrgAccounts :
             /\ ListedOnce(page.data, a.id)
             /\ a.parent_account_id = NULL => a.id \in SeqIds(page.data.roots)
             /\ a.parent_account_id \in ShownOrgIds =>
                   a.id \in SeqIds(page.data.children[a.parent_account_id])
             /\ (a.parent_account_id # NULL /\ a.parent_account_id \notin ShownOrgIds)
                   => a.id \in SeqIds(page.data.roots)

DefaultCodes == {defaultAccounts[i].code : i \in 1..Len(defaultAccounts)}

\* C7 idempotent seeding: once createDefaultAccounts has run for the
\* organization (stored the default chart, or was refused because a default
\* code was taken), every further createDefaultAccounts, whether or not the
\* reload of the first has been answered, leaves the stored accounts as
\* they are: a createDefaultAccounts in a state where the organization
\* holds a default code changes no account; and at no time are two accounts
\* stored with the same organization and code.
SeedingIdempotent ==
    /\ [][(/\ createDefaultAccounts
           /\ \E a \in AccountsOfOrg(session.currentOrganization) :
                 a.code \in DefaultCodes)
             => accounts' = accounts]_vars
    /\ [](\A a, b \in accounts :
             (a.organization_id = b.organization_id /\ a.code = b.code) => a = b)

\* C7 witness: the default chart is stored, its reload is still awaited, and
\* a second createDefaultAccounts has just been refused by the unique index
SeedingIdempotentWitness ==
    /\ lastOp.op = "seed_accounts"
    /\ lastOp.error = UniqueViolation
    /\ page.name = "ChartOfAccounts" /\ page.pending
    /\ {a.code : a \in AccountsOfOrg("o1")} = DefaultCodes
    /\ Cardinality(AccountsOfOrg("o1")) = Len(defaultAccounts)

\* ------------------------------------------------- claims on the hierarchy
RECURSIVE AncestorIds(_, _)
\* ids met by following parent_account_id from account id, at most depth steps
AncestorIds(id, depth) ==
    IF depth = 0 \/ ~\E a \in accounts : a.id = id THEN {}
    ELSE LET parent == AccountOf(id).parent_account_id
         IN IF parent = NULL THEN {}
            ELSE {parent} \cup AncestorIds(parent, depth - 1)

\* C11 acyclic account hierarchy: in every state no account is its own
\* ancestor, and the parent of an account is an account of the same
\* organization (a request that would store anything else is refused).
AcyclicHierarchy ==
    \A a \in accounts :
        /\ a.id \notin AncestorIds(a.id, Cardinality(accounts))
        /\ a.parent_account_id # NULL =>
              \E p \in accounts : /\ p.id = a.parent_account_id
                                  /\ p.organization_id = a.organization_id

\* C12 duplicate code rejection: an insert of one account by an owner or
\* admin of the organization, with a parent the foreign key accepts, is
\* refused with the unique violation (23505) and changes no stored account
\* when the organization already holds the code, whatever other
\* organizations hold; otherwise it is accepted and stores the row.
DuplicateCodeRejected ==
    [][\A u \in Users, o \in OrgIds, c \in ManualCodes, t \in ForestTypes,
          p \in AccountIds \cup {NULL} :
          (InsertAccount(u, o, c, t, p) /\ IsActiveAdmin(u, o)) =>
             IF \E a \in AccountsOfOrg(o) : a.code = c
                 THEN accounts' = accounts /\ lastOp'.error = UniqueViolation
                 ELSE /\ lastOp'.error = OK
                      /\ accounts' \ accounts
                            = {a \in accounts' : a.id = nextId'}
                      /\ \E a \in accounts' \ accounts :
                            a.organization_id = o /\ a.code = c]_vars

\* C12 witness: both organizations hold code "1000" and a further insert of
\* that code has just been refused with 23505
DuplicateCodeRejectedWitness ==
    /\ lastOp.op = "insert_account"
    /\ lastOp.error = UniqueViolation
    /\ \A o \in OrgIds : \E a \in AccountsOfOrg(o) : a.code = "1000"

\* -------------------------------------------------- claims on the Banking page
\* C13 running account balance: the balance the Banking page shows for a
\* bank account is the sum of debit - credit over every stored journal line
\* recorded against that account.
BankingBalance ==
    (page.name = "Banking" /\ ~page.logged) =>
       \A i \in 1..Len(page.data.bankAccounts) :
          LET b == page.data.bankAccounts[i]
              ls == {l \in journal_lines : l.account_id = b.id}
          IN b.balance = SumDebit(ls) - SumCredit(ls)

\* ------------------------------------------------ claims on the breakdown
\* the breakdown a page shows: Dashboard expenseBreakdown, Expenses
\* expenseCategories
ShownBreakdown ==
    IF page.name = "Dashboard" THEN page.data.expenseBreakdown
    ELSE page.data.expenseCategories

BreakdownComputed ==
    page.name \in {"Dashboard", "Expenses"} /\ ~page.logged

\* stored debit lines of o1's expense accounts named name (every entry of
\* the model's ledgers is of the current year)
CategoryLines(name) ==
    {l \in journal_lines :
        /\ EntryOrg(l.entry_id) = "o1"
        /\ AccountOf(l.account_id).organization_id = "o1"
        /\ AccountOf(l.account_id).type = "expense"
        /\ AccountOf(l.account_id).name = name
        /\ l.debit > 0}

Categories ==
    {a.name : a \in {b \in AccountsOfOrg("o1") : CategoryLines(b.name) # {}}}

\* C14 top-5 category breakdown: the breakdown lists expense accounts only,
\* by name with their summed debit, each once, in descending order of
\* total, all of them when there are at most 5 and otherwise 5 of them,
\* none smaller than a category left out.
TopFiveBreakdown ==
    BreakdownComputed =>
       LET shown == ShownBreakdown
           names == {shown[i].name : i \in 1..Len(shown)}
       IN /\ \A i \in 1..Len(shown) :
                /\ shown[i].name \in Categories
                /\ shown[i].value = SumDebit(CategoryLines(shown[i].name))
          /\ \A i, j \in 1..Len(shown) :
                i < j => shown[i].name # shown[j].name /\ shown[i].value >= shown[j].value
          /\ Len(shown) = IF Cardinality(Categories) > TopCategories
                            THEN TopCategories ELSE Cardinality(Categories)
          /\ \A out \in Categories \ names : \A i \in 1..Len(shown) :
                shown[i].value >= SumDebit(CategoryLines(out))

NameOrder ==
    <<"Cost of Goods Sold", "Marketing Expense", "Operating Expenses",
      "Rent Expense", "Sales Revenue", "Travel Expense", "Utilities Expense">>
NameRank(name) == CHOOSE i \in 1..Len(NameOrder) : NameOrder[i] = name

\* C15 breakdown tie-break: two categories of the breakdown with the same
\* total appear in ascending order of account name.
BreakdownTieBreak ==
    BreakdownComputed =>
       \A i, j \in 1..Len(ShownBreakdown) :
          (i < j /\ ShownBreakdown[i].value = ShownBreakdown[j].value)
             => NameRank(ShownBreakdown[i].name) < NameRank(ShownBreakdown[j].name)

\* ---------------------------------------------- claims on the monthly buckets
\* inflow and outflow of bucket i on either page
BucketIn(i) ==
    IF page.name = "Dashboard" THEN page.data.monthlyData[i].inflow
    ELSE page.data.monthlyData[i].revenue
BucketOut(i) ==
    IF page.name = "Dashboard" THEN page.data.monthlyData[i].outflow
    ELSE page.data.monthlyData[i].expenses

SnapshotComputed == page.name \in {"Dashboard", "Reports"} /\ ~page.logged

\* entries of the current organization the session user reads, as the
\* embedded read returns them, with a date accepted by ok
ReadEntries(ok(_)) ==
    LET all == EntriesResponse(session.user, session.currentOrganization,
                               [y |-> 0, m |-> 1, d |-> 1],
                               [y |-> 9999, m |-> 12, d |-> 31])
    IN SelectSeq(all, LAMBDA e : ok(e.date))

InYear(date) == date.y = session.year

\* C16 fixed 12-month buckets: a computed Dashboard or Reports snapshot has
\* exactly 12 monthly buckets, labelled Jan to Dec in calendar order, and
\* the bucket of a month in which no entry of the year with income or
\* expense activity is dated has inflow 0 and outflow 0.
TwelveBuckets ==
    SnapshotComputed =>
       /\ Len(page.data.monthlyData) = 12
       /\ \A i \in 1..12 :
             /\ page.data.monthlyData[i].month = months[i]
             /\ LET inMonth(date) == InYear(date) /\ date.m = i
                IN (TotalRevenue(ReadEntries(inMonth)) = 0
                      /\ TotalExpenses(ReadEntries(inMonth)) = 0)
                     => BucketIn(i) = 0 /\ BucketOut(i) = 0

\* C19 date-range filtering: the yearly totals are those of the entries
\* dated from Jan 1 to Dec 31 of the requested year, both days included,
\* and each monthly bucket holds the revenue and expenses of the entries of
\* the year dated in that calendar month; entries dated outside the year
\* add nothing.
DateRangeFiltering ==
    SnapshotComputed =>
       /\ page.data.totalRevenue = TotalRevenue(ReadEntries(InYear))
       /\ page.data.totalExpenses = TotalExpenses(ReadEntries(InYear))
       /\ \A i \in 1..12 :
             LET inMonth(date) == InYear(date) /\ date.m = i
             IN /\ BucketIn(i) = TotalRevenue(ReadEntries(inMonth))
                /\ BucketOut(i) = TotalExpenses(ReadEntries(inMonth))

\* ---------------------------------------------------- claims on empty input
EmptyYear ==
    YearResponse(session.user, session.currentOrganization, session.year) = <<>>

\* C17 empty input is not an error: when the read of the year's entries
\* answers with no entry, the Dashboard and Reports snapshots have
\* totalRevenue, totalExpenses and netProfit 0, Reports has profitMargin 0,
\* the Dashboard has an empty category breakdown and an empty list of
\* recent transactions, and no error is logged.
EmptyInputZeroed ==
    (page.name \in {"Dashboard", "Reports"} /\ EmptyYear /\ ~page.logged) =>
       /\ page.data.totalRevenue = 0
       /\ page.data.totalExpenses = 0
       /\ page.data.netProfit = 0
       /\ page.name = "Reports" => page.data.profitMargin = [num |-> 0, den |-> 1]
       /\ page.name = "Dashboard" =>
             /\ page.data.expenseBreakdown = <<>>
             /\ page.data.recentTransactions = <<>>
       /\ Len(page.data.monthlyData) = 12

\* C17 witness: the ledger holds an entry with a line, but none in the
\* year, and Reports has computed its snapshot from the empty answer
EmptyInputZeroedWitness ==
    /\ Computed("Reports")
    /\ EmptyYear
    /\ journal_lines # {}

\* -------------------------------------------- claims on the lines' accounts
\* C18 every stored journal line references an active account of the
\* organization of the line's journal entry.
LineAccountSameOrg ==
    \A l \in journal_lines :
       \E a \in accounts :
          /\ a.id = l.account_id
          /\ a.organization_id = EntryOrg(l.entry_id)
          /\ a.is_active

\* ------------------------------------------------- claims on deactivation
\* what the Dashboard and the Expenses page compute from the store as it is
DashboardNow ==
    DashboardSnapshot(YearResponse(session.user, session.currentOrganization,
                                   session.year), session.tz)
ExpensesNow ==
    LET rows == ExpensesResponse(session.user, session.currentOrganization)
    IN [expenses |-> ExpenseList(FlatLines(rows)),
        expenseCategories |-> ExpenseBreakdown(rows)]

\* C20 deactivation does not rewrite history: where only is_active of
\* accounts changes after the entries were recorded, a snapshot a page
\* computed at any earlier time equals the one it would compute now: the
\* Dashboard's totalRevenue, totalExpenses, monthly buckets and category
\* breakdown, and the expense list and categories of the Expenses page, are
\* the same before and after every deactivation.
DeactivationKeepsHistory ==
    /\ Computed("Dashboard") => page.data = DashboardNow
    /\ Computed("Expenses") => page.data = ExpensesNow

\* C20 witness: the expense account with a recorded debit has been switched
\* off, and the Expenses page, loaded since, lists the expense
DeactivationKeepsHistoryWitness ==
    /\ lastOp.op = "update_account"
    /\ \E a \in AccountsOfOrg("o1") : a.type = "expense" /\ ~a.is_active
    /\ Computed("Expenses")
    /\ page.data.expenses # <<>>

\* ------------------------------------------ claims on substituted results
\* SpecReads: a ledger of at most one entry, read by the Dashboard, the
\* Reports page and the Banking page, each read succeeding or failing
ReadsLedger ==
    /\ accounts = AggAccounts
    /\ \E n \in 0..1 :
          /\ journal_entries = AggEntries(n, [y |-> 2026, m |-> 6, d |-> 15])
          /\ \E k \in 0..(n * MaxDeactLines) :
                \E f \in [1..k -> [account_id : {a.id : a \in AggAccounts},
                                   amount : AggAmountPairs]] :
                   journal_lines =
                     {[id |-> 20 + i, entry_id |-> 11,
                       account_id |-> f[i].account_id,
                       debit |-> f[i].amount[1], credit |-> f[i].amount[2]] :
                         i \in 1..k}
    /\ nextId = 20 + MaxDeactLines
    /\ lastOp = [op |-> "none", actor |-> NoUser, error |-> OK, target |-> NULL,
                 rows |-> {}]

ReadsInit ==
    /\ organizations = {[id |-> "o1", owner_user_id |-> "u1"],
                        [id |-> "o2", owner_user_id |-> "u2"]}
    /\ user_organizations =
         {[user_id |-> "u1", organization_id |-> "o1", role |-> "owner", status |-> "active"],
          [user_id |-> "u2", organization_id |-> "o2", role |-> "owner", status |-> "active"]}
    /\ ReadsLedger
    /\ session = [user |-> "u1", currentOrganization |-> "o1", year |-> AggYear,
                  tz |-> "UTC"]
    /\ page = NoPage

ReadsNext ==
    \/ loadDashboardData
    \/ loadReportData
    \/ loadBankingData

SpecReads == ReadsInit /\ [][ReadsNext]_vars

\* what the Reports page and the Banking page compute from the store as it is
ReportNow ==
    ReportSnapshot(YearResponse(session.user, session.currentOrganization,
                                session.year), session.tz)
BankingNow ==
    LET banks == BankAccounts(session.user, session.currentOrganization)
        rows == BankingResponse(session.user, session.currentOrganization)
    IN [bankAccounts |-> banks,
        selectedAccount |-> IF banks = <<>> THEN NULL ELSE banks[1].id,
        transactions |-> BankTransactions(FlatLines(rows))]

\* the page states a successful read leaves behind, from the store as it is
SuccessPages ==
    {[name |-> "Dashboard", loading |-> FALSE, data |-> DashboardNow,
      logged |-> FALSE],
     [name |-> "Reports", loading |-> FALSE, data |-> ReportNow,
      logged |-> FALSE],
     [name |-> "Banking", loading |-> FALSE, data |-> BankingNow,
      logged |-> FALSE]}

\* the page states a successful read of an organization without entries
\* leaves behind: twelve zero buckets on the Dashboard and on Reports, and
\* on the Banking page no transaction, with or without bank accounts
GenuineEmptyPages ==
    {[name |-> "Dashboard", loading |-> FALSE,
      data |-> DashboardSnapshot(<<>>, session.tz), logged |-> FALSE],
     [name |-> "Reports", loading |-> FALSE,
      data |-> ReportSnapshot(<<>>, session.tz), logged |-> FALSE]}
    \cup {[name |-> "Banking", loading |-> FALSE,
           data |-> [bankAccounts |-> b,
                     selectedAccount |-> IF b = <<>> THEN NULL ELSE b[1].id,
                     transactions |-> <<>>],
           logged |-> FALSE] :
            b \in {<<>>, BankAccounts(session.user, session.currentOrganization)}}

\* C21 substituted empty results are distinguishable: a Dashboard, Reports
\* or Banking read that did not end as the successful read of the store
\* leaves a page state with the logged signal set, and that state differs
\* from every state a successful read of an organization without entries
\* leaves.
SubstitutionDistinguishable ==
    [][(loadDashboardData \/ loadReportData \/ loadBankingData)
         /\ page' \notin SuccessPages
       => /\ page'.logged
          /\ page' \notin GenuineEmptyPages]_vars

\* C21 witness: the Banking read of the accounts failed over a ledger that
\* holds no entry, so the page shows no account and no transaction
SubstitutionDistinguishableWitness ==
    /\ page.name = "Banking"
    /\ page.logged
    /\ journal_entries = {}
    /\ page.data.bankAccounts = <<>>
    /\ page.data.transactions = <<>>

\* ------------------------------------------------ claims on memberships
\* C22 recorded identity: every journal entry an insert stores carries, as
\* created_by, the authenticated user who issued the insert, whatever the
\* role that allowed the insert.
RecordedIdentity ==
    [][lastOp'.op = "insert_entry" /\ lastOp'.error = OK
       => \A e \in journal_entries' \ journal_entries :
             e.created_by = lastOp'.actor]_vars

\* --------------------------------------------------------- user_organizations
\* "Users can create organization memberships for themselves"
MembershipsInsertPolicy(u, row) == row.user_id = u

\* "Organization owners and admins can manage memberships", FOR ALL
MembershipsManagePolicy(u, row) == IsActiveAdmin(u, row.organization_id)

MembershipRoles == {"owner", "staff"}
MembershipStatuses == {"active", "pending"}

\* Outcome of INSERT INTO user_organizations of one row
MembershipInsertError(actor, row) ==
    IF ~(MembershipsInsertPolicy(actor, row) \/ MembershipsManagePolicy(actor, row))
        THEN PolicyViolation
    ELSE IF ~\E o \in organizations : o.id = row.organization_id
        THEN ForeignKeyViolation
    ELSE IF \E m \in user_organizations :
               m.user_id = row.user_id /\ m.organization_id = row.organization_id
        THEN UniqueViolation
    ELSE OK

\* supabase.from('user_organizations').insert({...})
InsertMembership(actor, user, org, role, status) ==
    /\ LET row == [user_id |-> user, organization_id |-> org, role |-> role,
                   status |-> status]
           err == MembershipInsertError(actor, row)
       IN /\ user_organizations' = IF err = OK THEN user_organizations \cup {row}
                                   ELSE user_organizations
          /\ lastOp' = Outcome("insert_membership", actor, err, NULL, {})
    /\ UNCHANGED <<organizations, accounts, journal_entries, journal_lines,
                 nextId, session, page>>

\* UPDATE user_organizations SET role, status WHERE user_id AND organization_id:
\* only rows the manage policy shows are touched, and no error otherwise
UpdateMembership(actor, user, org, role, status) ==
    /\ LET hit == {m \in user_organizations :
                     /\ m.user_id = user /\ m.organization_id = org
                     /\ MembershipsManagePolicy(actor, m)}
       IN /\ user_organizations' =
               (user_organizations \ hit)
                 \cup {[m EXCEPT !.role = role, !.status = status] : m \in hit}
          /\ lastOp' = Outcome("update_membership", actor, OK, NULL, {})
    /\ UNCHANGED <<organizations, accounts, journal_entries, journal_lines,
                 nextId, session, page>>

\* DELETE FROM user_organizations WHERE user_id AND organization_id
DeleteMembership(actor, user, org) ==
    /\ LET gone == {m \in user_organizations :
                      /\ m.user_id = user /\ m.organization_id = org
                      /\ MembershipsManagePolicy(actor, m)}
       IN /\ user_organizations' = user_organizations \ gone
          /\ lastOp' = Outcome("delete_membership", actor, OK, NULL, {})
    /\ UNCHANGED <<organizations, accounts, journal_entries, journal_lines,
                 nextId, session, page>>

\* SpecMembers: two organizations with their owners and a ledger in o1;
\* memberships are inserted, changed and deleted, and entries are read
MembersInit ==
    /\ organizations = {[id |-> "o1", owner_user_id |-> "u1"],
                        [id |-> "o2", owner_user_id |-> "u2"]}
    /\ user_organizations =
         {[user_id |-> "u1", organization_id |-> "o1", role |-> "owner", status |-> "active"],
          [user_id |-> "u2", organization_id |-> "o2", role |-> "owner", status |-> "active"]}
    /\ accounts = AggAccounts
    /\ journal_entries = {AggEntry(11, [y |-> 2026, m |-> 6, d |-> 15])}
    /\ journal_lines = {[id |-> 21, entry_id |-> 11, account_id |-> 1,
                         debit |-> 0, credit |-> 100000]}
    /\ nextId = 21
    /\ lastOp = [op |-> "none", actor |-> NoUser, error |-> OK, target |-> NULL,
                 rows |-> {}]
    /\ session = NoSession
    /\ page = NoPage

MembersNext ==
    \/ \E a, u \in Users, o \in OrgIds, r \in MembershipRoles,
          s \in MembershipStatuses : InsertMembership(a, u, o, r, s)
    \/ \E a, u \in Users, o \in OrgIds, r \in MembershipRoles,
          s \in MembershipStatuses : UpdateMembership(a, u, o, r, s)
    \/ \E a, u \in Users, o \in OrgIds : DeleteMembership(a, u, o)
    \/ \E u \in Users, o \in OrgIds : SelectJournalEntries(u, o)

SpecMembers == MembersInit /\ [][MembersNext]_vars

\* C23 no self-enrollment: whenever a user who was not an active member of
\* an existing organization is one after a step, the step was issued by a
\* user who was an active owner or admin of that organization; so no user
\* comes to read the accounts, entries or lines of an organization by
\* operations of their own.
NoSelfEnrollment ==
    [][\A u \in Users, o \in OrgIds :
          /\ \E g \in organizations : g.id = o
          /\ ~IsActiveMember(u, o)
          /\ \E m \in user_organizations' :
                m.user_id = u /\ m.organization_id = o /\ m.status = "active"
          => IsActiveAdmin(lastOp'.actor, o)]_vars

\* ============================================================ AuthContext
\* In the specifications of this section `session` also carries authUser,
\* the user the Supabase client is signed in as, and handlers, the calls of
\* the onAuthStateChange callback that are waiting for the lookup of the
\* user's organization, oldest first.  session.user is the React state
\* `user`, session.currentOrganization the state `currentOrganization`.
MaxHandlers == 2

\* user_organizations rows the signed-in user may read: their own
\* ("Users can read their organization memberships") and those of the
\* organizations they administer
MembershipVisible(u, row) ==
    row.user_id = u \/ MembershipsManagePolicy(u, row)

\* .from('user_organizations').select('*, organizations (*)')
\*   .eq('user_id', user).eq('status', 'active').single(), issued while the
\* client is signed in as auth: the organization of the one row that
\* matches, "none" when no row or more than one matches (.single() then
\* answers data: null) or when the embedded organization is not readable
OrganizationLookup(auth, user) ==
    LET rows == {m \in user_organizations :
                   /\ m.user_id = user /\ m.status = "active"
                   /\ MembershipVisible(auth, m)}
    IN IF Cardinality(rows) # 1 THEN "none"
       ELSE LET org == (CHOOSE m \in rows : TRUE).organization_id
            IN IF IsActiveMember(auth, org) THEN org ELSE "none"

\* the onAuthStateChange callback is called with the session of user s, or
\* with no session (s = NoUser).  It sets the user; with a user and no
\* current organization it goes on to the lookup, which it awaits; with no
\* session it clears the current organization.
AuthEvent(s) ==
    /\ s # NoUser => Len(session.handlers) < MaxHandlers
    /\ session' =
         [session EXCEPT
            !.authUser = s,
            !.user = s,
            !.currentOrganization = IF s = NoUser THEN "none" ELSE @,
            !.handlers = IF s # NoUser /\ session.currentOrganization = "none"
                           THEN Append(@, [user |-> s, pc |-> "lookup",
                                           result |-> "none"])
                           ELSE @]
    /\ UNCHANGED <<storeVars, lastOp, page>>

\* the store answers the lookup of the i-th waiting callback
LookupServed(i) ==
    /\ i \in 1..Len(session.handlers)
    /\ session.handlers[i].pc = "lookup"
    /\ session' =
         [session EXCEPT
            !.handlers[i] =
               [@ EXCEPT !.pc = "resume",
                         !.result = OrganizationLookup(session.authUser,
                                                      session.handlers[i].user)]]
    /\ UNCHANGED <<storeVars, lastOp, page>>

\* the i-th waiting callback resumes after its await:
\* if (userOrgs) setCurrentOrganization(userOrgs.organizations); its own
\* session argument is not null, so it clears nothing
LookupResumes(i) ==
    /\ i \in 1..Len(session.handlers)
    /\ session.handlers[i].pc = "resume"
    /\ session' =
         [session EXCEPT
            !.currentOrganization =
               IF session.handlers[i].result # "none"
                 THEN session.handlers[i].result ELSE @,
            !.handlers = [j \in 1..(Len(@) - 1) |->
                            IF j < i THEN @[j] ELSE @[j + 1]]]
    /\ UNCHANGED <<storeVars, lastOp, page>>

\* the Dashboard as it mounts: loading is true until a load ends
DashboardMounting ==
    [name |-> "Dashboard", loading |-> TRUE, data |-> DashboardEmpty,
     logged |-> FALSE]

\* the organizations and memberships of StoreInit (u2 belongs to o1 and o2),
\* or the two owners alone
AuthMemberships ==
    {{[user_id |-> "u1", organization_id |-> "o1", role |-> "owner", status |-> "active"],
      [user_id |-> "u2", organization_id |-> "o2", role |-> "owner", status |-> "active"]},
     {[user_id |-> "u1", organization_id |-> "o1", role |-> "owner", status |-> "active"],
      [user_id |-> "u2", organization_id |-> "o2", role |-> "owner", status |-> "active"],
      [user_id |-> "u2", organization_id |-> "o1", role |-> "staff", status |-> "active"]}}

AuthInit ==
    /\ organizations = {[id |-> "o1", owner_user_id |-> "u1"],
                        [id |-> "o2", owner_user_id |-> "u2"]}
    /\ user_organizations \in AuthMemberships
    /\ ReadsLedger
    /\ session = [user |-> NoUser, currentOrganization |-> "none",
                  year |-> AggYear, tz |-> "UTC", authUser |-> NoUser,
                  handlers |-> <<>>]
    /\ page = DashboardMounting

\* SpecAuth: sign-ins and sign-outs in any order, the lookups they start,
\* and the Dashboard loading whenever there is a current organization
AuthNext ==
    \/ \E s \in Users \cup {NoUser} : AuthEvent(s)
    \/ \E i \in 1..MaxHandlers : LookupServed(i)
    \/ \E i \in 1..MaxHandlers : LookupResumes(i)
    \/ loadDashboardData

SpecAuth == AuthInit /\ [][AuthNext]_vars

\* C24 signed-out means no organization: once the user is null and no
\* callback of onAuthStateChange is waiting any more, currentOrganization
\* is null.
SignedOutNoOrganization ==
    session.user = NoUser /\ session.handlers = <<>>
    => session.currentOrganization = "none"

\* SpecAuthLive: one sign-in and what follows from it.  Every request that
\* was sent is answered, every callback that was answered resumes, and the
\* Dashboard's effect runs while there is a current organization.
SignIn(u) ==
    /\ session.authUser = NoUser
    /\ AuthEvent(u)

AuthLiveNext ==
    \/ \E u \in Users : SignIn(u)
    \/ \E i \in 1..MaxHandlers : LookupServed(i)
    \/ \E i \in 1..MaxHandlers : LookupResumes(i)
    \/ loadDashboardData

\* memberships at the sign-in: the two owners, u2 active in o1 as well or
\* not, u1 invited to o2 (pending) or not
AuthLiveMemberships ==
    {{[user_id |-> "u1", organization_id |-> "o1", role |-> "owner", status |-> "active"],
      [user_id |-> "u2", organization_id |-> "o2", role |-> "owner", status |-> "active"]}
       \cup extra :
         extra \in SUBSET
           {[user_id |-> "u2", organization_id |-> "o1", role |-> "staff", status |-> "active"],
            [user_id |-> "u1", organization_id |-> "o2", role |-> "staff", status |-> "pending"]}}

AuthLiveInit ==
    /\ organizations = {[id |-> "o1", owner_user_id |-> "u1"],
                        [id |-> "o2", owner_user_id |-> "u2"]}
    /\ user_organizations \in AuthLiveMemberships
    /\ accounts = AggAccounts
    /\ journal_entries = {AggEntry(11, [y |-> 2026, m |-> 6, d |-> 15])}
    /\ \E am \in AggAmountPairs :
          journal_lines = {[id |-> 21, entry_id |-> 11, account_id |-> 1,
                            debit |-> am[1], credit |-> am[2]]}
    /\ nextId = 21
    /\ lastOp = [op |-> "none", actor |-> NoUser, error |-> OK, target |-> NULL,
                 rows |-> {}]
    /\ \E tz \in TimeZones :
          session = [user |-> NoUser, currentOrganization |-> "none",
                     year |-> AggYear, tz |-> tz, authUser |-> NoUser,
                     handlers |-> <<>>]
    /\ page = DashboardMounting

SpecAuthLive ==
    /\ AuthLiveInit
    /\ [][AuthLiveNext]_vars
    /\ WF_vars(\E i \in 1..MaxHandlers : LookupServed(i))
    /\ WF_vars(\E i \in 1..MaxHandlers : LookupResumes(i))
    /\ WF_vars(loadDashboardData)

\* C25 sign-in eventually yields a usable workspace: after a user with at
\* least one active membership has signed in, eventually currentOrganization
\* is set and the Dashboard is no longer loading.
SignInYieldsWorkspace ==
    \A u \in Users :
       (session.authUser = u /\ \E o \in OrgIds : IsActiveMember(u, o))
         ~> (session.currentOrganization # "none" /\ ~page.loading)

\* ------------------------------------------------------------------ signUp
MaxOrgs == 3
NewUser == "u3"
NetworkError == "network"
AuthError == "auth"

\* gen_random_uuid() for organizations.id
FreshOrgIds == {"o3", "o4", "o5"}

\* an organizations row is readable by its owner too
OrganizationsVisibleToOwner(u, row) ==
    IsActiveMember(u, row.id) \/ row.owner_user_id = u

\* "Users can read organizations they belong to"
OrganizationsSelectPolicy(u, row) == IsActiveMember(u, row.id)

\* "Users can create organizations", TO authenticated
OrganizationsInsertPolicy(u, row) == u # NoUser /\ row.owner_user_id = u

\* Outcome of .from('organizations').insert({...}).select().single() by the
\* client signed in as auth (NoUser: no session, the anon role).  The
\* statement returns the row it inserts, so the row has to pass the select
\* policy as well as the insert policy.
OrganizationInsertError(auth, row) ==
    IF ~OrganizationsInsertPolicy(auth, row) THEN PolicyViolation
    ELSE IF ~OrganizationsSelectPolicy(auth, row) THEN PolicyViolation
    ELSE OK

\* signUp(email, password, organizationName) from its call to its return or
\* throw.  authFailed: supabase.auth.signUp answers with an error.
\* confirmed: the sign-up opened a session (no e-mail confirmation pending).
\* orgLost, memberLost: the request of the insert fails before it reaches
\* the store.
signUp(u, authFailed, confirmed, orgLost, memberLost) ==
    /\ Cardinality(organizations) < MaxOrgs
    /\ \E id \in FreshOrgIds : \A o \in organizations : o.id # id
    /\ LET auth == IF confirmed THEN u ELSE NoUser
           org == [id |-> CHOOSE id \in FreshOrgIds :
                            \A o \in organizations : o.id # id,
                   owner_user_id |-> u]
           orgError == IF orgLost THEN NetworkError
                       ELSE OrganizationInsertError(auth, org)
           member == [user_id |-> u, organization_id |-> org.id,
                      role |-> "owner", status |-> "active"]
           \* the organization exists by now and is new, so neither the
           \* foreign key nor UNIQUE(user_id, organization_id) can fail
           memberError ==
              IF memberLost THEN NetworkError
              ELSE IF ~(MembershipsInsertPolicy(auth, member)
                          \/ MembershipsManagePolicy(auth, member))
                THEN PolicyViolation
              ELSE OK
       IN IF authFailed
            THEN /\ lastOp' = Outcome("sign_up", u, AuthError, NULL, {})
                 /\ UNCHANGED <<organizations, user_organizations>>
          ELSE IF orgError # OK
            THEN /\ lastOp' = Outcome("sign_up", u, orgError, NULL, {})
                 /\ UNCHANGED <<organizations, user_organizations>>
          ELSE /\ organizations' = organizations \cup {org}
               /\ user_organizations' =
                    IF memberError = OK THEN user_organizations \cup {member}
                    ELSE user_organizations
               /\ lastOp' = Outcome("sign_up", u, memberError, NULL, {})
    /\ UNCHANGED <<accounts, journal_entries, journal_lines, nextId, session,
                 page>>

\* SpecSignUp: SpecMembers with sign-ups of a new user
SignUpNext ==
    \/ \E authFailed, confirmed, orgLost, memberLost \in BOOLEAN :
          signUp(NewUser, authFailed, confirmed, orgLost, memberLost)
    \/ MembersNext

SpecSignUp == MembersInit /\ [][SignUpNext]_vars

Browsers == TimeZones \cup {"fr"}

LocaleInit ==
    /\ organizations = {[id |-> "o1", owner_user_id |-> "u1"],
                        [id |-> "o2", owner_user_id |-> "u2"]}
    /\ user_organizations =
         {[user_id |-> "u1", organization_id |-> "o1", role |-> "owner", status |-> "active"],
          [user_id |-> "u2", organization_id |-> "o2", role |-> "owner", status |-> "active"]}
    /\ ReadsLedger
    /\ \E tz \in Browsers :
          session = [user |-> "u1", currentOrganization |-> "o1",
                     year |-> AggYear, tz |-> tz]
    /\ page = NoPage

LocaleNext == loadDashboardData \/ loadReportData

SpecLocale == LocaleInit /\ [][LocaleNext]_vars

\* C27 bucket conservation: in every successfully computed snapshot the
\* twelve monthly revenues (Dashboard: inflows) sum to totalRevenue and the
\* twelve monthly expenses (outflows) to totalExpenses; on Reports each
\* monthly profit is revenue minus expenses and the four quarterly values
\* sum to totalRevenue.
BucketConservation ==
    /\ Computed("Dashboard") =>
          /\ SeqSum([i \in 1..12 |-> page.data.monthlyData[i].inflow])
               = page.data.totalRevenue
          /\ SeqSum([i \in 1..12 |-> page.data.monthlyData[i].outflow])
               = page.data.totalExpenses
    /\ Computed("Reports") =>
          /\ SeqSum([i \in 1..12 |-> page.data.monthlyData[i].revenue])
               = page.data.totalRevenue
          /\ SeqSum([i \in 1..12 |-> page.data.monthlyData[i].expenses])
               = page.data.totalExpenses
          /\ \A i \in 1..12 :
                page.data.monthlyData[i].profit
                  = page.data.monthlyData[i].revenue
                      - page.data.monthlyData[i].expenses
          /\ SeqSum([q \in 1..4 |-> page.data.quarterlyData[q].value])
               = page.data.totalRevenue

\* ------------------------------------------------ claims on Banking totals
\* transactions.filter(t => t.amount > 0).reduce((sum, t) => sum + t.amount, 0)
totalInflow(transactions) ==
    SeqSum([i \in 1..Len(transactions) |->
              IF transactions[i].amount > 0 THEN transactions[i].amount ELSE 0])

\* transactions.filter(t => t.amount < 0)
\*   .reduce((sum, t) => sum + Math.abs(t.amount), 0)
totalOutflow(transactions) ==
    SeqSum([i \in 1..Len(transactions) |->
              IF transactions[i].amount < 0 THEN Abs(transactions[i].amount) ELSE 0])

\* SpecBalanced: one or two entries whose lines carry 0 or 500.00 on either
\* side, against accounts of o1 or of o2, and u1 opening the Banking page
BalancedPairs == {<<0, 0>>, <<50000, 0>>, <<0, 50000>>}

BalancedInit ==
    /\ organizations = {[id |-> "o1", owner_user_id |-> "u1"],
                        [id |-> "o2", owner_user_id |-> "u2"]}
    /\ user_organizations =
         {[user_id |-> "u1", organization_id |-> "o1", role |-> "owner", status |-> "active"],
          [user_id |-> "u2", organization_id |-> "o2", role |-> "owner", status |-> "active"]}
    /\ accounts = AggAccounts
    /\ \E n \in 1..2 :
          /\ journal_entries = AggEntries(n, [y |-> 2026, m |-> 6, d |-> 15])
          /\ \E k \in 0..MaxAggLines :
                \E f \in [1..k -> [entry_id : {e.id : e \in AggEntries(n, [y |-> 2026, m |-> 6, d |-> 15])},
                                   account_id : {a.id : a \in AggAccounts},
                                   amount : BalancedPairs]] :
                   journal_lines =
                     {[id |-> 20 + i, entry_id |-> f[i].entry_id,
                       account_id |-> f[i].account_id,
                       debit |-> f[i].amount[1], credit |-> f[i].amount[2]] :
                         i \in 1..k}
    /\ nextId = 20 + MaxAggLines
    /\ lastOp = [op |-> "none", actor |-> NoUser, error |-> OK, target |-> NULL,
                 rows |-> {}]
    /\ session = [user |-> "u1", currentOrganization |-> "o1", year |-> AggYear,
                  tz |-> "UTC"]
    /\ page = NoPage

BalancedNext == loadBankingData

SpecBalanced == BalancedInit /\ [][BalancedNext]_vars

\* every loaded entry is balanced and each of its lines has its account
LoadedBalanced ==
    LET rows == BankingResponse(session.user, session.currentOrganization)
    IN \A i \in 1..Len(rows) :
          LET ls == rows[i].journal_lines
          IN /\ SeqSum([j \in 1..Len(ls) |-> ls[j].debit])
                  = SeqSum([j \in 1..Len(ls) |-> ls[j].credit])
             /\ \A j \in 1..Len(ls) : ls[j].accounts # NoAccount

\* C28 Banking totals on balanced data: when every loaded entry is balanced
\* and each of its lines has its account, the Banking page's totalInflow
\* equals its totalOutflow, and the transactions are the loaded lines one
\* for one, the amount of each being minus the debit or plus the credit of
\* its line.
BankingTotalsBalanced ==
    (Computed("Banking") /\ LoadedBalanced) =>
       LET lines == FlatLines(BankingResponse(session.user,
                                              session.currentOrganization))
           ts == page.data.transactions
       IN /\ totalInflow(ts) = totalOutflow(ts)
          /\ Len(ts) = Len(lines)
          /\ \A i \in 1..Len(ts) :
                /\ ts[i].id = lines[i].id
                /\ ts[i].amount = (IF lines[i].debit > 0 THEN 0 - lines[i].debit
                                   ELSE lines[i].credit)

\* the same without the count: the totals agree and every transaction is
\* one loaded line with its amount
BankingTotalsOfNonZeroLines ==
    (Computed("Banking") /\ LoadedBalanced) =>
       LET lines == FlatLines(BankingResponse(session.user,
                                              session.currentOrganization))
           ts == page.data.transactions
       IN /\ totalInflow(ts) = totalOutflow(ts)
          /\ \A i \in 1..Len(ts) :
                \E j \in 1..Len(lines) :
                   /\ ts[i].id = lines[j].id
                   /\ ts[i].amount = (IF lines[j].debit > 0 THEN 0 - lines[j].debit
                                      ELSE lines[j].credit)

\* ------------------------------------------- claims on deleting a parent
\* SpecOrphans: a stored hierarchy (2 under 1, 3 under 1 or 2 or not,
\* 4 of o2 under 1 or not) and a line on account 1; the owner u1 or the
\* staff member u2 has the Chart of Accounts of o1 open, in either copy of
\* the page, and deletes accounts
OrphanAccounts(p2, p3, p4) ==
    {[a EXCEPT !.parent_account_id =
         IF a.id = 2 THEN p2 ELSE IF a.id = 3 THEN p3
         ELSE IF a.id = 4 THEN p4 ELSE NULL] : a \in AggAccounts}

OrphanInit ==
    /\ organizations = {[id |-> "o1", owner_user_id |-> "u1"],
                        [id |-> "o2", owner_user_id |-> "u2"]}
    /\ user_organizations =
         {[user_id |-> "u1", organization_id |-> "o1", role |-> "owner", status |-> "active"],
          [user_id |-> "u2", organization_id |-> "o2", role |-> "owner", status |-> "active"],
          [user_id |-> "u2", organization_id |-> "o1", role |-> "staff", status |-> "active"]}
    /\ \E p3 \in {NULL, 1, 2}, p4 \in {NULL, 1} :
          accounts = OrphanAccounts(1, p3, p4)
    /\ journal_entries = {AggEntry(11, [y |-> 2026, m |-> 6, d |-> 15])}
    /\ journal_lines = {[id |-> 21, entry_id |-> 11, account_id |-> 1,
                         debit |-> 0, credit |-> 100000]}
    /\ nextId = 21
    /\ lastOp = [op |-> "none", actor |-> NoUser, error |-> OK, target |-> NULL,
                 rows |-> {}]
    /\ \E u \in Users :
          session = [user |-> u, currentOrganization |-> "o1", year |-> AggYear,
                     tz |-> "UTC"]
    /\ \E v \in {"current", "legacy"} :
          page = ChartPage(v, TRUE, EmptyForest, TRUE, FALSE)

OrphanNext ==
    \/ \E id \in AccountIds : handleDeleteAccount(session.user, id)
    \/ loadAccounts

SpecOrphans == OrphanInit /\ [][OrphanNext]_vars

\* C29 deleting a parent keeps its children: a step that removes an account
\* leaves every account that had it as parent stored, with parent null; and
\* a listing that is answered shows every stored account of the listed
\* organization whose parent is null as a root.
ChildrenKeptAsRoots ==
    [][/\ \A a \in accounts :
             (\A b \in accounts' : b.id # a.id)
             => \A c \in accounts :
                   c.parent_account_id = a.id
                   => \E d \in accounts' :
                         d.id = c.id /\ d.parent_account_id = NULL
       /\ (lastOp'.op = "select_accounts" /\ lastOp'.error = OK)
             => \A a \in accounts' :
                   (a.organization_id = session.currentOrganization
                      /\ a.parent_account_id = NULL)
                   => \E i \in 1..Len(page'.data.roots) :
                         page'.data.roots[i] = a.id]_vars

\* C29 witness: account 1, the parent of account 2, has been deleted, and
\* the listing answered since shows account 2, stored with parent null, as
\* a root
ChildrenKeptAsRootsWitness ==
    /\ \A a \in accounts : a.id # 1
    /\ \E c \in accounts : c.id = 2 /\ c.parent_account_id = NULL
    /\ lastOp.op = "select_accounts"
    /\ lastOp.error = OK
    /\ ~page.loading
    /\ \E i \in 1..Len(page.data.roots) : page.data.roots[i] = 2

====
